---- MODULE Spec2Model ----
(***************************************************************************)
(* Full-replace indexing and graph traversal of the course knowledge       *)
(* engine: GraphRAGService.index_courses over the two vector collections,  *)
(* Neo4jGraphStore.replace_graph / get_entity / neighbors over the         *)
(* Entity/RELATED graph, and the builders that derive their payloads.      *)
(*                                                                         *)
(* A Python str is computed on as a sequence of one-character strings, so  *)
(* that lower-casing, slugs, concatenation and substring search are done   *)
(* character by character as the code does them; a finished str that is    *)
(* only stored, compared or used as a key is held as a TLA+ string.        *)
(***************************************************************************)
EXTENDS Integers, Sequences, FiniteSets, Bags, TLC

VARIABLES
    have_sklearn,   \* graph_builders.HAVE_SKLEARN of this deployment
    batch_size_arg, \* the batch_size handed to Neo4jGraphStore.__init__
    batch_size,     \* Neo4jGraphStore.batch_size after __init__
    serialized,     \* whether the callers hold one mutex per collection
    collation,      \* the database's case-insensitive comparisons, tabulated:
                    \* text of a node -> value looked up -> [equals, contains]
    kg_store,       \* the triple collection: a bag of entry ids
    chunk_store,    \* the chunk collection: a bag of entry ids
    graph,          \* the Entity/RELATED graph: [nodes, edges]
    pc,             \* per caller: position inside the running operation
    op,             \* per caller: the operation it runs
    arg,            \* per caller: the operation's argument
    loc,            \* per caller: the operation's local variables
    ret,            \* per caller: the value returned, or the error raised
    calls,          \* per caller: the store calls issued so far, in order
    snap,           \* per caller: what its completed index run left behind
    last_index,     \* the last index_courses run that completed, if no
                    \* other run has started since
    last_replace,   \* the last replace_graph run that ended, if no other
                    \* run has started since
    graph_backends, \* graph_store._GRAPH_BACKENDS: name -> factory
    registrations   \* the register_graph_backend calls so far, in order

vars == <<have_sklearn, batch_size_arg, batch_size, serialized, collation,
          kg_store, chunk_store, graph, pc, op, arg, loc, ret, calls,
          snap, last_index, last_replace, graph_backends, registrations>>

----------------------------------------------------------------------------
(* Bounds of the model.                                                    *)

\* Number of callers that may run operations at the same time.
NumCallers == 2
\* Longest course list handed to index_courses.
MaxCourses == 2
\* Largest limit handed to neighbors.
MaxLimit == 2
\* Largest batch size configured for the graph store, the default aside.
MaxBatch == 2
\* Longest course list whose relationships are handed to replace_graph.
MaxGraphCourses == 1

\* Which labelling KMeans(random_state=42) gives the candidate terms: the
\* i-th term gets label ((i - 1) * KMeansStride) mod n_clusters.
KMeansStride == 1
\* Most hits in a provider response.
MaxHits == 2
\* Longest term list handed to _cluster_terms.
MaxTerms == 3
\* Most register_graph_backend calls in a run.
MaxRegistrations == 3

Callers == 1..NumCallers

----------------------------------------------------------------------------
(* Python str primitives.                                                  *)

LowerCaseChars == <<"a", "b", "c", "d", "e", "f", "g", "h", "i", "j", "k", "l", "m", "n", "o", "p", "q", "r", "s", "t", "u", "v", "w", "x", "y", "z">>
UpperCaseChars == <<"A", "B", "C", "D", "E", "F", "G", "H", "I", "J", "K", "L", "M", "N", "O", "P", "Q", "R", "S", "T", "U", "V", "W", "X", "Y", "Z">>
DigitChars == <<"0", "1", "2", "3", "4", "5", "6", "7", "8", "9">>

Range(s) == {s[i] : i \in DOMAIN s}

IsUpper(c) == \E i \in DOMAIN UpperCaseChars : UpperCaseChars[i] = c
IsLower(c) == \E i \in DOMAIN LowerCaseChars : LowerCaseChars[i] = c
IsDigit(c) == \E i \in DOMAIN DigitChars : DigitChars[i] = c

\* The finished str: the characters joined into one TLA+ string
RECURSIVE PyStr(_)
PyStr(chars) ==
    IF Len(chars) = 0 THEN ""
    ELSE IF Len(chars) = 1 THEN chars[1]
    ELSE LET mid == Len(chars) \div 2
         IN  PyStr(SubSeq(chars, 1, mid)) \o PyStr(SubSeq(chars, mid + 1, Len(chars)))

\* str.lower() on one character
ToLowerChar(c) ==
    IF IsUpper(c)
    THEN LowerCaseChars[CHOOSE i \in DOMAIN UpperCaseChars : UpperCaseChars[i] = c]
    ELSE c

\* str.upper() on one character
ToUpperChar(c) ==
    IF IsLower(c)
    THEN UpperCaseChars[CHOOSE i \in DOMAIN LowerCaseChars : LowerCaseChars[i] = c]
    ELSE c

\* str.lower()
ToLower(s) == [i \in DOMAIN s |-> ToLowerChar(s[i])]

\* str.title(): the first cased character of every run of letters is
\* upper-cased, the others lower-cased.
Title(s) ==
    [i \in DOMAIN s |->
        IF i = 1 \/ ~(IsUpper(s[i - 1]) \/ IsLower(s[i - 1]))
        THEN ToUpperChar(s[i])
        ELSE ToLowerChar(s[i])]

\* str(n) for a non-negative int
RECURSIVE IntToStr(_)
IntToStr(n) ==
    IF n < 10 THEN <<DigitChars[n + 1]>>
    ELSE IntToStr(n \div 10) \o <<DigitChars[(n % 10) + 1]>>

\* `sub in text`
Contains(text, sub) ==
    \E i \in 0..(Len(text) - Len(sub)) :
        \A j \in 1..Len(sub) : text[i + j] = sub[j]

\* sep.join(parts)
RECURSIVE Join(_, _)
Join(sep, parts) ==
    IF parts = <<>> THEN <<>>
    ELSE IF Len(parts) = 1 THEN parts[1]
    ELSE parts[1] \o sep \o Join(sep, Tail(parts))

\* [x for x in xs if Keep(x)]
RECURSIVE SelectNonEmpty(_)
SelectNonEmpty(xs) ==
    IF xs = <<>> THEN <<>>
    ELSE IF Head(xs) = <<>> THEN SelectNonEmpty(Tail(xs))
    ELSE <<Head(xs)>> \o SelectNonEmpty(Tail(xs))

\* re.sub(r"[^a-z0-9]+", "_", s): every maximal run of characters outside
\* [a-z0-9] becomes one underscore.
IsSlugChar(c) == IsLower(c) \/ IsDigit(c)

\* What re.sub leaves of each character: itself, one underscore for the
\* first character of a run, nothing for the rest of the run
SubstitutedChar(s, i) ==
    IF IsSlugChar(s[i]) THEN s[i]
    ELSE IF i > 1 /\ ~IsSlugChar(s[i - 1]) THEN ""
    ELSE "_"

IsKept(c) == c # ""

SubNonSlugRuns(s) == SelectSeq([i \in DOMAIN s |-> SubstitutedChar(s, i)], IsKept)

\* s.strip(ch)
Strip(s, ch) ==
    LET kept == {i \in DOMAIN s : s[i] # ch}
    IN  IF kept = {} THEN <<>>
        ELSE SubSeq(s, CHOOSE i \in kept : \A j \in kept : i <= j,
                       CHOOSE i \in kept : \A j \in kept : i >= j)

\* graph_rag_service._slugify / graph_builders._slugify
Slugify(value) == Strip(SubNonSlugRuns(ToLower(Strip(value, " "))), "_")

----------------------------------------------------------------------------
(* Program constants of the builders.                                      *)

HAS_INSTRUCTOR == <<"h", "a", "s", "_", "i", "n", "s", "t", "r", "u", "c", "t", "o", "r">>
IS_OF_TYPE == <<"i", "s", "_", "o", "f", "_", "t", "y", "p", "e">>
TAUGHT_AT == <<"t", "a", "u", "g", "h", "t", "_", "a", "t">>
TEACHES_CONCEPT == <<"t", "e", "a", "c", "h", "e", "s", "_", "c", "o", "n", "c", "e", "p", "t">>
DEVELOPS_PROFICIENCY_IN == <<"d", "e", "v", "e", "l", "o", "p", "s", "_", "p", "r", "o", "f", "i", "c", "i", "e", "n", "c", "y", "_", "i", "n">>
PROVIDES_MATERIAL == <<"p", "r", "o", "v", "i", "d", "e", "s", "_", "m", "a", "t", "e", "r", "i", "a", "l">>
BELONGS_TO_THEME == <<"b", "e", "l", "o", "n", "g", "s", "_", "t", "o", "_", "t", "h", "e", "m", "e">>

DEFAULT_THEME_NAMES ==
    << <<"C", "r", "e", "a", "t", "i", "v", "e", " ", "A", "r", "t", "s", " ", "a", "n", "d", " ", "D", "e", "s", "i", "g", "n", " ", "C", "l", "u", "s", "t", "e", "r">>,
       <<"C", "u", "l", "i", "n", "a", "r", "y", " ", "A", "r", "t", "s", " ", "a", "n", "d", " ", "F", "o", "o", "d", " ", "C", "l", "u", "s", "t", "e", "r">>,
       <<"T", "e", "x", "t", "i", "l", "e", " ", "a", "n", "d", " ", "F", "i", "b", "e", "r", " ", "C", "r", "a", "f", "t", "s", " ", "C", "l", "u", "s", "t", "e", "r">>,
       <<"N", "a", "t", "u", "r", "e", " ", "a", "n", "d", " ", "W", "i", "l", "d", "l", "i", "f", "e", " ", "C", "l", "u", "s", "t", "e", "r">>,
       <<"H", "i", "s", "t", "o", "r", "i", "c", "a", "l", " ", "a", "n", "d", " ", "G", "e", "n", "e", "r", "a", "l", " ", "S", "k", "i", "l", "l", "s", " ", "C", "l", "u", "s", "t", "e", "r">> >>

CulinaryArts == <<"C", "u", "l", "i", "n", "a", "r", "y", " ", "A", "r", "t", "s">>
FiberArts == <<"F", "i", "b", "e", "r", " ", "A", "r", "t", "s">>
NatureCrafts == <<"N", "a", "t", "u", "r", "e", " ", "C", "r", "a", "f", "t", "s">>
TraditionalSkills == <<"T", "r", "a", "d", "i", "t", "i", "o", "n", "a", "l", " ", "S", "k", "i", "l", "l", "s">>

\* COURSE_TYPE_THEME_MAP.get(course_type, DEFAULT_THEME_NAMES[0])
CourseTypeTheme(course_type) ==
    IF course_type = CulinaryArts THEN DEFAULT_THEME_NAMES[2]
    ELSE IF course_type = FiberArts THEN DEFAULT_THEME_NAMES[3]
    ELSE IF course_type = NatureCrafts THEN DEFAULT_THEME_NAMES[4]
    ELSE IF course_type = TraditionalSkills THEN DEFAULT_THEME_NAMES[5]
    ELSE DEFAULT_THEME_NAMES[1]

\* sorted(DEFAULT_CANDIDATE_PHRASES)
SortedDefaultCandidatePhrases ==
    << <<"A", "n", "i", "m", "a", "l", " ", "C", "a", "r", "e">>,
       <<"C", "r", "e", "a", "t", "i", "v", "e", " ", "C", "o", "o", "k", "i", "n", "g">>,
       <<"C", "r", "e", "a", "t", "i", "v", "e", " ", "D", "e", "s", "i", "g", "n">>,
       <<"C", "r", "e", "a", "t", "i", "v", "e", " ", "W", "r", "i", "t", "i", "n", "g">>,
       <<"C", "u", "l", "t", "u", "r", "a", "l", " ", "H", "i", "s", "t", "o", "r", "y">>,
       <<"D", "e", "s", "i", "g", "n", " ", "S", "k", "i", "l", "l", "s">>,
       <<"F", "i", "b", "e", "r", " ", "A", "r", "t", "s">>,
       <<"F", "l", "a", "v", "o", "u", "r", " ", "P", "a", "i", "r", "i", "n", "g">>,
       <<"F", "o", "o", "d", " ", "P", "r", "e", "s", "e", "n", "t", "a", "t", "i", "o", "n">>,
       <<"M", "i", "n", "d", "f", "u", "l", "n", "e", "s", "s", " ", "C", "r", "a", "f", "t", "i", "n", "g">>,
       <<"S", "t", "o", "r", "y", "t", "e", "l", "l", "i", "n", "g">>,
       <<"S", "t", "r", "e", "s", "s", " ", "R", "e", "l", "i", "e", "f">>,
       <<"W", "i", "l", "d", "l", "i", "f", "e", " ", "C", "o", "n", "s", "e", "r", "v", "a", "t", "i", "o", "n">> >>

----------------------------------------------------------------------------
(* Course records.  A field the record does not carry (None) is 0 for the  *)
(* integer id and the empty sequence for a text or list field; the code    *)
(* tests all of them by truthiness.                                        *)

Course(id, class_id, title, instructor, course_type, location, materials) ==
    [id |-> id, class_id |-> class_id, title |-> title,
     instructor |-> instructor, course_type |-> course_type,
     location |-> location, skills |-> <<>>, learning_objectives |-> <<>>,
     provided_materials |-> materials, description |-> <<>>]

\* The rows of the courses table the callers read.  Every row carries at
\* most one word of free text, so no two-token phrase can be mined and no
\* token reaches the frequency threshold.
Catalog ==
    << Course(1, <<>>, <<"B", "r", "e", "a", "d", " ", "A", "r", "t">>, <<"A", "d", "a">>, CulinaryArts, <<"L", "e", "e", "d", "s">>, <<<<"s", "t", "a", "r", "t", "e", "r">>>>),
       Course(2, <<>>, <<"B", "r", "e", "a", "d", " ", "A", "r", "t">>, <<"B", "o">>, <<>>, <<"L", "e", "e", "d", "s">>, <<>>),
       Course(0, <<"X", "7">>, <<"A", "d", "a">>, <<>>, FiberArts, <<>>, <<>>),
       Course(3, <<>>, <<>>, <<"B", "o">>, CulinaryArts, <<>>, <<>>) >>

\* Course dicts handed to the builders directly: a course whose title,
\* class_id and instructor coincide, the course of the builders' worked
\* example, a second offering of row 2's course, and a course whose
\* instructor and location have the same name.
Fixtures ==
    << Course(0, <<"B", "o">>, <<"B", "o">>, <<"B", "o">>, <<>>, <<>>, <<>>),
       [Course(1, <<>>, <<"S", "o", "u", "r", "d", "o", "u", "g", "h", " ", "B", "a", "s", "i", "c", "s">>, <<"A", "d", "a">>, CulinaryArts, <<"L", "e", "e", "d", "s">>, <<<<"s", "t", "a", "r", "t", "e", "r">>>>)
            EXCEPT !.skills = <<<<"k", "n", "e", "a", "d", "i", "n", "g">>>>],
       Course(4, <<>>, <<"B", "r", "e", "a", "d", " ", "A", "r", "t">>, <<"B", "o">>, <<>>, <<"L", "e", "e", "d", "s">>, <<>>),
       Course(5, <<>>, <<"C", "i", "t", "y", " ", "W", "a", "l", "k">>, <<"L", "e", "e", "d", "s">>, <<>>, <<"L", "e", "e", "d", "s">>, <<>>) >>

AllCourses == Catalog \o Fixtures

\* The row numbers in S, in table order
RECURSIVE RowNumbers(_, _)
RowNumbers(S, from) ==
    IF from > Len(Catalog) THEN <<>>
    ELSE IF from \in S THEN <<from>> \o RowNumbers(S, from + 1)
    ELSE RowNumbers(S, from + 1)

\* The course lists the callers index, each named by its row numbers
CourseLists ==
    {RowNumbers(S, 1) : S \in {T \in SUBSET (1..Len(Catalog)) : Cardinality(T) <= MaxCourses}}

\* The course records of a list of row numbers
Courses(rows) == [i \in DOMAIN rows |-> AllCourses[rows[i]]]

\* The lists of fixtures the builders are run on, by row number in
\* AllCourses
FixtureLists == {<<5>>, <<6>>, <<7>>, <<8>>, <<2, 7>>, <<1, 6>>}

\* Every course list a builder is run on
BuilderLists == CourseLists \cup FixtureLists

----------------------------------------------------------------------------
(* Triples: graph_rag_service.py and its refactored copy graph_builders.py *)

NoMeta == [course_id |-> 0, class_id |-> <<>>, title |-> <<>>, term |-> <<>>]

CourseMeta(course) ==
    [course_id |-> course.id, class_id |-> course.class_id,
     title |-> course.title, term |-> <<>>]

TermMeta(term) == [NoMeta EXCEPT !.term = term]

\* predicate.replace("_", " ")
UnderscoresToSpaces(s) == [i \in DOMAIN s |-> IF s[i] = "_" THEN " " ELSE s[i]]

\* _triple_payload: id, text and metadata of one triple
TriplePayload(subject, predicate, obj, metadata) ==
    [id |-> PyStr(<<"k", "g", ":", ":">> \o Slugify(subject) \o <<":", ":">> \o Slugify(predicate)
                     \o <<":", ":">> \o Slugify(obj)),
     text |-> PyStr(subject \o <<" ">> \o UnderscoresToSpaces(predicate) \o <<" ">> \o obj),
     metadata |-> [subject |-> subject, predicate |-> predicate, object |-> obj,
                   course_id |-> metadata.course_id, class_id |-> metadata.class_id,
                   title |-> metadata.title, term |-> metadata.term]]

\* BASE_PREDICATES, in order, with the value each reads from the course
BasePredicateValues(course) ==
    << <<HAS_INSTRUCTOR, course.instructor>>,
       <<IS_OF_TYPE, course.course_type>>,
       <<TAUGHT_AT, course.location>> >>

\* An accumulator of the triples emitted so far and the dedup keys seen.
EmptyAcc == [triples |-> <<>>, seen |-> {}]

\* append_triple numbering its triples: the id carries the triple's position
AppendTripleNumbered(acc, subject, predicate, obj, metadata, by_id) ==
    LET payload == TriplePayload(subject, predicate, obj, metadata)
        numbered == [payload EXCEPT !.id = PyStr(<<@, "#">> \o IntToStr(Len(acc.triples)))]
    IN  IF subject = <<>> \/ obj = <<>> THEN acc
        ELSE [triples |-> Append(acc.triples, numbered), seen |-> acc.seen]

\* build_enriched_triples.append_triple.  graph_rag_service keys the seen
\* set by (subject, predicate, obj); graph_builders keys it by triple id.
AppendTriple(acc, subject, predicate, obj, metadata, by_id) ==
    LET payload == TriplePayload(subject, predicate, obj, metadata)
        key == IF by_id THEN payload.id ELSE <<subject, predicate, obj>>
    IN  IF subject = <<>> \/ obj = <<>> \/ key \in acc.seen THEN acc
        ELSE [triples |-> Append(acc.triples, payload), seen |-> acc.seen \cup {key}]

\* The base-triple loop over one course.  graph_rag_service appends every
\* triple; graph_builders skips an id it has seen.
RECURSIVE BaseTriplesOfCourse(_, _, _, _)
BaseTriplesOfCourse(acc, course, preds, dedup) ==
    IF preds = <<>> THEN acc
    ELSE LET predicate == Head(preds)[1]
             value == Head(preds)[2]
             payload == TriplePayload(course.title, predicate, value, CourseMeta(course))
             next ==
                 IF value = <<>> THEN acc
                 ELSE IF dedup /\ payload.id \in acc.seen THEN acc
                 ELSE [triples |-> Append(acc.triples, payload),
                       seen |-> acc.seen \cup {payload.id}]
         IN  BaseTriplesOfCourse(next, course, Tail(preds), dedup)

RECURSIVE BaseTriples(_, _, _)
BaseTriples(acc, courses, dedup) ==
    IF courses = <<>> THEN acc
    ELSE IF Head(courses).title = <<>> THEN BaseTriples(acc, Tail(courses), dedup)
    ELSE BaseTriples(
            BaseTriplesOfCourse(acc, Head(courses), BasePredicateValues(Head(courses)), dedup),
            Tail(courses), dedup)

\* CourseTextAnalytics._combine_course_text
CombineCourseText(course) ==
    Join(<<" ">>,
         SelectNonEmpty(course.skills \o course.learning_objectives
                        \o course.provided_materials
                        \o (IF course.description = <<>> THEN <<>> ELSE <<course.description>>)))

\* TOKEN_PATTERN.findall(text), TOKEN_PATTERN = [a-zA-Z][a-zA-Z'\-]+
IsLetter(c) == IsUpper(c) \/ IsLower(c)

IsTokenChar(c) == IsLetter(c) \/ c = "'" \/ c = "-"

\* Where the longest run of token characters that starts at i ends
RECURSIVE TokenEnd(_, _)
TokenEnd(text, i) ==
    IF i < Len(text) /\ IsTokenChar(text[i + 1]) THEN TokenEnd(text, i + 1) ELSE i

RECURSIVE FindTokens(_, _)
FindTokens(text, i) ==
    IF i > Len(text) THEN <<>>
    ELSE IF IsLetter(text[i]) /\ TokenEnd(text, i) > i
         THEN <<SubSeq(text, i, TokenEnd(text, i))>> \o FindTokens(text, TokenEnd(text, i) + 1)
         ELSE FindTokens(text, i + 1)

\* graph_rag_service.CourseTextAnalytics.__init__ builds the records before
\* it sets self.stopwords, and _tokenize reads self.stopwords for the first
\* token it filters: the constructor raises AttributeError as soon as a
\* titled course has a token in its text.
AnalyticsRaises(courses) ==
    \E i \in DOMAIN courses :
        /\ courses[i].title # <<>>
        /\ FindTokens(CombineCourseText(courses[i]), 1) # <<>>

\* graph_rag_service.CourseTextAnalytics.build: candidate_phrases.  Where
\* the constructor did not raise no record has a token, so no phrase is
\* mined and the list is the sorted curated set.
CandidatePhrases(courses) == SortedDefaultCandidatePhrases

\* CourseTextAnalytics.build: candidate_terms (no top token in the catalog)
CandidateTerms(courses) == CandidatePhrases(courses)

\* _cluster_terms without its guard: every term is labelled
ClusterTermsUnguarded(terms, sklearn_present) == [i \in DOMAIN terms |-> <<terms[i], 0>>]

\* CourseTextAnalytics._cluster_terms: term -> label, as a list of pairs in
\* term order.  The labels KMeans(random_state=42) assigns are a fixed but
\* unknown function of the terms; KMeansStride picks one.
ClusterTerms(terms, sklearn_present) ==
    IF ~sklearn_present \/ Len(terms) < 2 THEN <<>>
    ELSE LET n_clusters == IF Len(DEFAULT_THEME_NAMES) < Len(terms)
                           THEN Len(DEFAULT_THEME_NAMES) ELSE Len(terms)
         IN  [i \in DOMAIN terms |-> <<terms[i], ((i - 1) * KMeansStride) % n_clusters>>]

\* cluster_names.get(cluster_id, DEFAULT_THEME_NAMES[0])
ClusterName(cluster_id) ==
    IF cluster_id \in 0..(Len(DEFAULT_THEME_NAMES) - 1)
    THEN DEFAULT_THEME_NAMES[(cluster_id % Len(DEFAULT_THEME_NAMES)) + 1]
    ELSE DEFAULT_THEME_NAMES[1]

RECURSIVE PhraseTriples(_, _, _, _)
PhraseTriples(acc, course, phrases, by_id) ==
    IF phrases = <<>> THEN acc
    ELSE LET phrase_lower == ToLower(Head(phrases))
             next ==
                 IF phrase_lower # <<>>
                    /\ Contains(ToLower(CombineCourseText(course)), phrase_lower)
                 THEN AppendTriple(acc, course.title, DEVELOPS_PROFICIENCY_IN,
                                   Head(phrases), CourseMeta(course), by_id)
                 ELSE acc
         IN  PhraseTriples(next, course, Tail(phrases), by_id)

RECURSIVE MaterialTriples(_, _, _, _)
MaterialTriples(acc, course, materials, by_id) ==
    IF materials = <<>> THEN acc
    ELSE MaterialTriples(
            AppendTriple(acc, course.title, PROVIDES_MATERIAL, Head(materials),
                         CourseMeta(course), by_id),
            course, Tail(materials), by_id)

\* The body of build_enriched_triples' loop over the analytics records
\* (one record per titled course).
RECURSIVE RecordTriples(_, _, _, _)
RecordTriples(acc, courses, phrases, by_id) ==
    IF courses = <<>> THEN acc
    ELSE IF Head(courses).title = <<>> THEN RecordTriples(acc, Tail(courses), phrases, by_id)
    ELSE LET course == Head(courses)
             a1 == PhraseTriples(acc, course, phrases, by_id)
             a2 == MaterialTriples(a1, course, course.provided_materials, by_id)
             a3 == AppendTriple(a2, course.title, BELONGS_TO_THEME,
                                CourseTypeTheme(course.course_type),
                                CourseMeta(course), by_id)
         IN  RecordTriples(a3, Tail(courses), phrases, by_id)

RECURSIVE TermClusterTriples(_, _, _)
TermClusterTriples(acc, term_clusters, by_id) ==
    IF term_clusters = <<>> THEN acc
    ELSE LET term == Head(term_clusters)[1]
             cluster_id == Head(term_clusters)[2]
         IN  TermClusterTriples(
                AppendTriple(acc, Title(term), BELONGS_TO_THEME,
                             ClusterName(cluster_id), TermMeta(term), by_id),
                Tail(term_clusters), by_id)

\* graph_rag_service.build_enriched_triples (sklearn is a hard import there)
build_enriched_triples(courses) ==
    TermClusterTriples(
        RecordTriples(EmptyAcc, courses, CandidatePhrases(courses), FALSE),
        ClusterTerms(CandidateTerms(courses), TRUE), FALSE).triples

\* graph_rag_service.build_kg_triples
build_kg_triples(courses) ==
    BaseTriples(EmptyAcc, courses, FALSE).triples \o build_enriched_triples(courses)

\* graph_rag_service._course_identifier
CourseIdentifier(course) ==
    IF course.id # 0 THEN IntToStr(course.id)
    ELSE IF course.class_id # <<>> THEN course.class_id
    ELSE Strip(SubNonSlugRuns(
                 ToLower(IF course.title = <<>> THEN <<"u", "n", "t", "i", "t", "l", "e", "d">> ELSE course.title)),
                 "_")

\* graph_rag_service.build_course_chunks: one narrative chunk per titled
\* course; only the id reaches the collection's key space.
RECURSIVE build_course_chunks(_)
build_course_chunks(courses) ==
    IF courses = <<>> THEN <<>>
    ELSE IF Head(courses).title = <<>> THEN build_course_chunks(Tail(courses))
    ELSE <<[id |-> PyStr(<<"c", "h", "u", "n", "k", ":", ":">> \o CourseIdentifier(Head(courses))),
            metadata |-> CourseMeta(Head(courses))]>>
         \o build_course_chunks(Tail(courses))

\* [item["id"] for item in payload]
Ids(payload) == [i \in DOMAIN payload |-> payload[i].id]

\* What index_courses builds from one course list: the ids of the triple
\* payload and of the chunk payload.
IndexPayload(rows) ==
    [raises |-> AnalyticsRaises(Courses(rows)),
     kg_ids |-> Ids(build_kg_triples(Courses(rows))),
     chunk_ids |-> Ids(build_course_chunks(Courses(rows)))]

\* The payloads of every course list
IndexPayloads == [rows \in CourseLists |-> IndexPayload(rows)]

----------------------------------------------------------------------------
(* The vector collections.  A collection is a bag of entry ids: the        *)
(* VectorIndex contract has no upsert, so adding an id that is present     *)
(* leaves two entries under it.                                            *)

\* The bag holding one entry per element of ids
BagOfIds(ids) ==
    [x \in Range(ids) |-> Cardinality({i \in DOMAIN ids : ids[i] = x})]

\* ChromaDBProvider.add
StoreAdd(collection, ids) == collection (+) BagOfIds(ids)

\* A delete that removes nothing
StoreDeleteNothing(collection, ids) == collection

\* ChromaDBProvider.delete
StoreDelete(collection, ids) ==
    [x \in (DOMAIN collection) \ Range(ids) |-> collection[x]]

\* The set of ids a collection holds
HeldIds(collection) == DOMAIN collection

----------------------------------------------------------------------------
(* Callers.                                                                *)

\* Python's None where an entity is expected
NoEntity == [is_none |-> TRUE]

NoSnap == [valid |-> FALSE]

NoArg == [courses |-> <<>>, value |-> "", limit |-> 0, store |-> "none"]

NoLoc == [kg_ids |-> <<>>, chunk_ids |-> <<>>, prev |-> 0,
          relationships |-> <<>>, start |-> 0,
          entity |-> NoEntity, outgoing |-> <<>>]

NoRet == [kind |-> "none"]

Running(p) == pc[p] \notin {"idle", "done", "raised"}

\* Callers take their numbers in the order in which they call.
MayStart(p) == pc[p] = "idle" /\ \A q \in Callers : q < p => pc[q] # "idle"

\* Under one mutex per collection a run waits for the runs that write the
\* same collections.
MutexFree(p, operation) ==
    serialized => \A q \in Callers : ~(q # p /\ Running(q) /\ op[q] = operation)

Call(store, method, outcome, batch) ==
    [store |-> store, method |-> method, outcome |-> outcome, batch |-> batch]

----------------------------------------------------------------------------
(* GraphRAGService.index_courses, one step per store call.                 *)

\* Where index_courses continues once the triple collection is replaced:
\* _replace_collection returns at once on an empty payload.
AfterKg(chunk_ids) == IF chunk_ids = <<>> THEN "done" ELSE "chunk_delete"

AfterBuild(kg_ids, chunk_ids) == IF kg_ids = <<>> THEN AfterKg(chunk_ids) ELSE "kg_delete"

\* return {"kg_triples": len(kg_triples), "course_chunks": len(chunks)}
Counts(kg_ids, chunk_ids) ==
    [kind |-> "value", kg_triples |-> Len(kg_ids), course_chunks |-> Len(chunk_ids)]

\* What a completed run leaves in the two collections.
Snapshot(kg, chunk) == [valid |-> TRUE, kg |-> kg, chunk |-> chunk]

UnchangedConfig ==
    UNCHANGED <<have_sklearn, batch_size_arg, batch_size, serialized, collation,
                graph_backends, registrations>>

\* build_kg_triples, build_course_chunks, and the first _replace_collection
\* up to its store.delete.
StartIndexCourses(p, courses) ==
    /\ MayStart(p)
    /\ MutexFree(p, "index_courses")
    /\ op' = [op EXCEPT ![p] = "index_courses"]
    /\ arg' = [arg EXCEPT ![p] = [NoArg EXCEPT !.courses = courses]]
    /\ \E payload \in {IndexPayloads[courses]} :
          IF payload.raises
          THEN /\ pc' = [pc EXCEPT ![p] = "raised"]
               /\ ret' = [ret EXCEPT ![p] = [kind |-> "error"]]
               /\ loc' = [loc EXCEPT ![p] = [NoLoc EXCEPT !.prev = last_index]]
               /\ last_index' = 0
               /\ UNCHANGED snap
          ELSE LET kg_ids == payload.kg_ids
                   chunk_ids == payload.chunk_ids
                   position == AfterBuild(kg_ids, chunk_ids)
               IN  /\ loc' = [loc EXCEPT ![p] = [NoLoc EXCEPT !.kg_ids = kg_ids,
                                                               !.chunk_ids = chunk_ids,
                                                               !.prev = last_index]]
                   /\ pc' = [pc EXCEPT ![p] = position]
                   /\ IF position = "done"
                      THEN /\ ret' = [ret EXCEPT ![p] = Counts(kg_ids, chunk_ids)]
                           /\ snap' = [snap EXCEPT ![p] = Snapshot(kg_store, chunk_store)]
                           /\ last_index' = p
                      ELSE /\ last_index' = 0
                           /\ UNCHANGED <<ret, snap>>
    /\ UNCHANGED <<kg_store, chunk_store, graph, last_replace, calls>>
    /\ UnchangedConfig

\* _replace_collection(self.kg_store, kg_triples): store.delete(ids) inside
\* try/except Exception: pass.
KgDelete(p, ok) ==
    /\ pc[p] = "kg_delete"
    /\ kg_store' = IF ok THEN StoreDelete(kg_store, loc[p].kg_ids) ELSE kg_store
    /\ calls' = [calls EXCEPT ![p] =
                    Append(@, Call("kg", "delete", IF ok THEN "ok" ELSE "error", <<>>))]
    /\ pc' = [pc EXCEPT ![p] = "kg_add"]
    /\ UNCHANGED <<chunk_store, graph, last_replace, op, arg, loc, ret, snap, last_index>>
    /\ UnchangedConfig

\* _replace_collection(self.kg_store, kg_triples): store.add(ids, ...), then
\* the second _replace_collection up to its store.delete.
KgAdd(p, ok) ==
    /\ pc[p] = "kg_add"
    /\ kg_store' = IF ok THEN StoreAdd(kg_store, loc[p].kg_ids) ELSE kg_store
    /\ calls' = [calls EXCEPT ![p] =
                    Append(@, Call("kg", "add", IF ok THEN "ok" ELSE "error", <<>>))]
    /\ pc' = [pc EXCEPT ![p] = IF ok THEN AfterKg(loc[p].chunk_ids) ELSE "raised"]
    /\ IF ok /\ AfterKg(loc[p].chunk_ids) = "done"
       THEN /\ ret' = [ret EXCEPT ![p] = Counts(loc[p].kg_ids, loc[p].chunk_ids)]
            /\ snap' = [snap EXCEPT ![p] = Snapshot(kg_store', chunk_store)]
            /\ last_index' = p
       ELSE /\ ret' = [ret EXCEPT ![p] = IF ok THEN @ ELSE [kind |-> "error"]]
            /\ UNCHANGED <<snap, last_index>>
    /\ UNCHANGED <<chunk_store, graph, last_replace, op, arg, loc>>
    /\ UnchangedConfig

\* _replace_collection(self.chunk_store, chunks): store.delete(ids)
ChunkDelete(p, ok) ==
    /\ pc[p] = "chunk_delete"
    /\ chunk_store' = IF ok THEN StoreDelete(chunk_store, loc[p].chunk_ids) ELSE chunk_store
    /\ calls' = [calls EXCEPT ![p] =
                    Append(@, Call("chunk", "delete", IF ok THEN "ok" ELSE "error", <<>>))]
    /\ pc' = [pc EXCEPT ![p] = "chunk_add"]
    /\ UNCHANGED <<kg_store, graph, last_replace, op, arg, loc, ret, snap, last_index>>
    /\ UnchangedConfig

\* _replace_collection(self.chunk_store, chunks): store.add(ids, ...), then
\* index_courses returns the counts.
ChunkAdd(p, ok) ==
    /\ pc[p] = "chunk_add"
    /\ chunk_store' = IF ok THEN StoreAdd(chunk_store, loc[p].chunk_ids) ELSE chunk_store
    /\ calls' = [calls EXCEPT ![p] =
                    Append(@, Call("chunk", "add", IF ok THEN "ok" ELSE "error", <<>>))]
    /\ pc' = [pc EXCEPT ![p] = IF ok THEN "done" ELSE "raised"]
    /\ IF ok
       THEN /\ ret' = [ret EXCEPT ![p] = Counts(loc[p].kg_ids, loc[p].chunk_ids)]
            /\ snap' = [snap EXCEPT ![p] = Snapshot(kg_store, chunk_store')]
            /\ last_index' = p
       ELSE /\ ret' = [ret EXCEPT ![p] = [kind |-> "error"]]
            /\ UNCHANGED <<snap, last_index>>
    /\ UNCHANGED <<kg_store, graph, last_replace, op, arg, loc>>
    /\ UnchangedConfig

----------------------------------------------------------------------------
(* graph_builders.py: the refactored triple builder and the lowering of    *)
(* triples to graph relationships.                                         *)

\* The characters of the mined text in code point order
CodePointOrder == <<" ", "'", "-">> \o DigitChars \o UpperCaseChars \o <<"_">> \o LowerCaseChars

Ord(c) == CHOOSE i \in DOMAIN CodePointOrder : CodePointOrder[i] = c

\* s < t on str
RECURSIVE StrLess(_, _)
StrLess(s, t) ==
    IF t = <<>> THEN FALSE
    ELSE IF s = <<>> THEN TRUE
    ELSE IF Head(s) = Head(t) THEN StrLess(Tail(s), Tail(t))
    ELSE Ord(Head(s)) < Ord(Head(t))

\* sorted(strs) for a set of str
RECURSIVE SortedStrs(_)
SortedStrs(strs) ==
    IF strs = {} THEN <<>>
    ELSE LET least == CHOOSE s \in strs : \A t \in strs \ {s} : StrLess(s, t)
         IN  <<least>> \o SortedStrs(strs \ {least})

\* sorted(combo) for a tuple of tokens, equal tokens kept
RECURSIVE SortedTokens(_)
SortedTokens(tokens) ==
    IF tokens = <<>> THEN <<>>
    ELSE LET i == CHOOSE i \in DOMAIN tokens :
                      \A j \in DOMAIN tokens : ~StrLess(tokens[j], tokens[i])
         IN  <<tokens[i]>>
                 \o SortedTokens([k \in 1..(Len(tokens) - 1) |->
                                     IF k < i THEN tokens[k] ELSE tokens[k + 1]])

\* The words of sklearn's ENGLISH_STOP_WORDS that the mined texts could
\* carry, and NOISE_TOKENS
ENGLISH_STOP_WORDS == {<<"a", "n", "d">>, <<"t", "h", "e">>, <<"o", "f">>, <<"w", "i", "t", "h">>, <<"f", "o", "r">>}

NOISE_TOKENS == {<<"s", "k", "i", "l", "l">>, <<"s", "k", "i", "l", "l", "s">>}

EndsWith(s, suffix) ==
    Len(s) >= Len(suffix) /\ SubSeq(s, Len(s) - Len(suffix) + 1, Len(s)) = suffix

\* graph_builders.CourseTextAnalytics._lemmatize
Lemmatize(token) ==
    IF EndsWith(token, <<"i", "e", "s">>) /\ Len(token) > 3
    THEN SubSeq(token, 1, Len(token) - 3) \o <<"y">>
    ELSE IF EndsWith(token, <<"i", "n", "g">>) /\ Len(token) > 4 THEN SubSeq(token, 1, Len(token) - 3)
    ELSE IF EndsWith(token, <<"e", "d">>) /\ Len(token) > 3 THEN SubSeq(token, 1, Len(token) - 2)
    ELSE IF EndsWith(token, <<"s">>) /\ Len(token) > 3 /\ ~EndsWith(token, <<"s", "s">>)
         THEN SubSeq(token, 1, Len(token) - 1)
    ELSE token

\* graph_builders.CourseTextAnalytics._tokenize, then the NOISE_TOKENS
\* filter of _extract_flexible_phrases
RECURSIVE LemmatizeKept(_)
LemmatizeKept(tokens) ==
    IF tokens = <<>> THEN <<>>
    ELSE LET token == ToLower(Head(tokens))
         IN  (IF token \in ENGLISH_STOP_WORDS \cup NOISE_TOKENS THEN <<>>
              ELSE IF Lemmatize(token) \in NOISE_TOKENS THEN <<>>
              ELSE <<Lemmatize(token)>>)
             \o LemmatizeKept(Tail(tokens))

PhraseTokens(course) == LemmatizeKept(FindTokens(CombineCourseText(course), 1))

\* The n-grams _extract_flexible_phrases counts for one record: for every
\* position the 2- and 3-combinations of the window around it, each sorted
\* and joined by a space
FLEXIBLE_WINDOW == 3

WindowOf(idx, length) ==
    {k \in 1..length : k >= idx - FLEXIBLE_WINDOW /\ k <= idx + FLEXIBLE_WINDOW}

RECURSIVE PositionsInOrder(_, _, _)
PositionsInOrder(positions, from, tokens) ==
    IF from > Len(tokens) THEN <<>>
    ELSE (IF from \in positions THEN <<tokens[from]>> ELSE <<>>)
         \o PositionsInOrder(positions, from + 1, tokens)

NGramsOf(tokens) ==
    {Join(<<" ">>, SortedTokens(PositionsInOrder(combo, 1, tokens))) :
        combo \in UNION {{c \in SUBSET WindowOf(idx, Len(tokens)) : Cardinality(c) \in {2, 3}} :
                            idx \in DOMAIN tokens}}

\* graph_builders.CourseTextAnalytics._extract_flexible_phrases, as a set:
\* the courses of the model yield fewer than MAX_FLEXIBLE_PHRASES n-grams,
\* so most_common keeps every one of them.
FlexiblePhrases(courses) ==
    UNION {NGramsOf(PhraseTokens(courses[i])) :
              i \in {j \in DOMAIN courses : courses[j].title # <<>>}}

\* graph_builders.CourseTextAnalytics.build: candidate_phrases, which are
\* also the candidate_terms (no token reaches TOKEN_FREQ_THRESHOLD)
graph_builders_CandidatePhrases(courses) ==
    IF FlexiblePhrases(courses) = {} THEN SortedDefaultCandidatePhrases
    ELSE SortedStrs(Range(SortedDefaultCandidatePhrases) \cup FlexiblePhrases(courses))

\* graph_builders.build_enriched_triples
graph_builders_build_enriched_triples(courses, sklearn_present) ==
    TermClusterTriples(
        RecordTriples(EmptyAcc, courses,
                      IF sklearn_present THEN graph_builders_CandidatePhrases(courses)
                      ELSE <<>>, TRUE),
        ClusterTerms(IF sklearn_present THEN graph_builders_CandidatePhrases(courses)
                     ELSE <<>>,
                     sklearn_present), TRUE).triples

\* graph_builders.build_kg_triples
graph_builders_build_kg_triples(courses, sklearn_present) ==
    BaseTriples(EmptyAcc, courses, TRUE).triples
        \o graph_builders_build_enriched_triples(courses, sklearn_present)

\* GRAPH_OBJECT_TYPES.get(predicate, "entity")
GraphObjectType(predicate) ==
    IF predicate = HAS_INSTRUCTOR THEN <<"i", "n", "s", "t", "r", "u", "c", "t", "o", "r">>
    ELSE IF predicate = IS_OF_TYPE THEN <<"c", "o", "u", "r", "s", "e", "_", "t", "y", "p", "e">>
    ELSE IF predicate = TAUGHT_AT THEN <<"l", "o", "c", "a", "t", "i", "o", "n">>
    ELSE IF predicate = TEACHES_CONCEPT THEN <<"c", "o", "n", "c", "e", "p", "t">>
    ELSE IF predicate = DEVELOPS_PROFICIENCY_IN THEN <<"s", "k", "i", "l", "l">>
    ELSE IF predicate = PROVIDES_MATERIAL THEN <<"m", "a", "t", "e", "r", "i", "a", "l">>
    ELSE IF predicate = BELONGS_TO_THEME THEN <<"t", "h", "e", "m", "e">>
    ELSE <<"e", "n", "t", "i", "t", "y">>

\* _node_uid(name, suffix); suffix is the characters of str(suffix), empty
\* when the suffix is None
NodeUid(name, suffix) ==
    LET base == IF name # <<>> THEN Slugify(name) ELSE <<"n", "o", "d", "e">>
        suffix_slug == Slugify(suffix)
        joined == IF suffix # <<>> /\ suffix_slug # <<>>
                  THEN base \o <<"_">> \o suffix_slug ELSE base
    IN  IF joined # <<>> THEN joined ELSE <<"n", "o", "d", "e">>

\* _graph_node_props: the node's uid and its property map.  uid and name
\* stay character sequences here; Stored() finishes them.
GraphNodeProps(name, metadata, entity_type, suffix) ==
    [uid |-> NodeUid(name, suffix),
     name |-> IF name # <<>> THEN name ELSE Title(entity_type),
     entity_type |-> PyStr(entity_type),
     course_id |-> metadata.course_id,
     class_id |-> PyStr(metadata.class_id),
     title |-> PyStr(metadata.title),
     term |-> PyStr(metadata.term)]

\* _subject_metadata
SubjectMetadata(metadata) ==
    [NoMeta EXCEPT !.course_id = metadata.course_id,
                   !.class_id = metadata.class_id,
                   !.title = metadata.title]

\* _object_metadata
ObjectMetadata(metadata) == [NoMeta EXCEPT !.term = metadata.term]

\* subject_meta.get("course_id") or subject_meta.get("class_id"), as str
SubjectSuffix(subject_meta) ==
    IF subject_meta.course_id # 0 THEN IntToStr(subject_meta.course_id)
    ELSE subject_meta.class_id

\* The body of build_graph_relationships' loop for one triple
RelationshipOf(triple) ==
    LET metadata == triple.metadata
        subject_meta == SubjectMetadata(metadata)
        object_meta == ObjectMetadata(metadata)
        subject_props == GraphNodeProps(metadata.subject, subject_meta, <<"c", "o", "u", "r", "s", "e">>,
                                        SubjectSuffix(subject_meta))
        object_props == GraphNodeProps(metadata.object, object_meta,
                                       GraphObjectType(metadata.predicate),
                                       IF object_meta.term # <<>> THEN object_meta.term
                                       ELSE metadata.object)
    IN  [subject_id |-> subject_props.uid,
         subject_props |-> subject_props,
         object_id |-> object_props.uid,
         object_props |-> object_props,
         rel_id |-> triple.id,
         rel_props |-> [predicate |-> PyStr(metadata.predicate),
                        text |-> triple.text,
                        course_id |-> subject_meta.course_id,
                        class_id |-> PyStr(subject_meta.class_id),
                        title |-> PyStr(subject_meta.title),
                        object_term |-> PyStr(object_meta.term)]]

\* graph_builders.build_graph_relationships
RECURSIVE build_graph_relationships(_)
build_graph_relationships(triples) ==
    IF triples = <<>> THEN <<>>
    ELSE LET metadata == Head(triples).metadata
         IN  IF metadata.subject = <<>> \/ metadata.object = <<>> \/ metadata.predicate = <<>>
             THEN build_graph_relationships(Tail(triples))
             ELSE <<RelationshipOf(Head(triples))>> \o build_graph_relationships(Tail(triples))

\* A relationship as the driver receives it: every str finished.
StoredProps(props) == [props EXCEPT !.uid = PyStr(@), !.name = PyStr(@)]

Stored(rel) ==
    [rel EXCEPT !.subject_id = PyStr(@), !.subject_props = StoredProps(@),
                !.object_id = PyStr(@), !.object_props = StoredProps(@)]

\* The relationships built from one course list
RelationshipsOf(rows, sklearn_present) ==
    build_graph_relationships(
        graph_builders_build_kg_triples(Courses(rows), sklearn_present))

\* The relationship lists of every course list, as built (chars) and as
\* handed to the driver (stored)
RelationshipTable(sklearn_present) ==
    [rows \in BuilderLists |->
        LET rels == RelationshipsOf(rows, sklearn_present)
        IN  [chars |-> rels, stored |-> [i \in DOMAIN rels |-> Stored(rels[i])]]]

RelationshipsWithSklearn == RelationshipTable(TRUE)

RelationshipsWithoutSklearn == RelationshipTable(FALSE)

Relationships(rows, sklearn_present) ==
    IF sklearn_present THEN RelationshipsWithSklearn[rows].stored
    ELSE RelationshipsWithoutSklearn[rows].stored

\* The course lists whose relationships are handed to replace_graph
GraphCourseLists == {rows \in BuilderLists : Len(rows) <= MaxGraphCourses}

----------------------------------------------------------------------------
(* The Entity/RELATED graph behind Neo4jGraphStore: nodes keyed by uid,    *)
(* edges keyed by (start uid, rid, end uid).                               *)

EmptyGraph == [nodes |-> <<>>, edges |-> <<>>]

\* Cypher's SET n += props on a node: a key of props overwrites, a key that
\* props lacks (None, dropped by _graph_node_props) keeps its old value.
SetNodeProps(old, props) ==
    [uid |-> props.uid,
     name |-> props.name,
     entity_type |-> props.entity_type,
     course_id |-> IF props.course_id # 0 THEN props.course_id ELSE old.course_id,
     class_id |-> IF props.class_id # "" THEN props.class_id ELSE old.class_id,
     title |-> IF props.title # "" THEN props.title ELSE old.title,
     term |-> IF props.term # "" THEN props.term ELSE old.term]

\* A node MERGE has just created: only its uid is set
CreatedNode(uid) ==
    [uid |-> uid, name |-> "", entity_type |-> "", course_id |-> 0,
     class_id |-> "", title |-> "", term |-> ""]

\* MERGE (n:Entity {uid: ...}) SET n += props
MergeNode(nodes, uid, props) ==
    IF uid \in DOMAIN nodes
    THEN [nodes EXCEPT ![uid] = SetNodeProps(@, props)]
    ELSE nodes @@ (uid :> SetNodeProps(CreatedNode(uid), props))

\* MERGE (s)-[r:RELATED {rid: ...}]->(o) SET r += rel_props: every key of
\* rel_props is present, so the edge's properties become rel_props.
MergeEdge(edges, key, rel_props) ==
    IF key \in DOMAIN edges
    THEN [edges EXCEPT ![key] = rel_props]
    ELSE edges @@ (key :> rel_props)

\* _write_batch for one element of the batch
WriteTriple(g, triple) ==
    LET with_subject == MergeNode(g.nodes, triple.subject_id, triple.subject_props)
        with_object == MergeNode(with_subject, triple.object_id, triple.object_props)
    IN  [nodes |-> with_object,
         edges |-> MergeEdge(g.edges,
                             <<triple.subject_id, triple.rel_id, triple.object_id>>,
                             triple.rel_props)]

\* _write_batch: UNWIND $batch
RECURSIVE WriteBatchTx(_, _)
WriteBatchTx(g, batch) ==
    IF batch = <<>> THEN g
    ELSE WriteBatchTx(WriteTriple(g, Head(batch)), Tail(batch))

\* _clear_graph: MATCH (n:Entity) DETACH DELETE n
ClearGraphTx(g) == EmptyGraph

\* A constructor that keeps the batch size it is handed
InitBatchSizeUnclamped(b) == b

\* Neo4jGraphStore.__init__: self.batch_size = max(1, batch_size)
InitBatchSize(b) == IF b > 1 THEN b ELSE 1

\* relationships[start : start + self.batch_size]
Slice(relationships, start, stop) ==
    SubSeq(relationships, start + 1,
           IF stop < Len(relationships) THEN stop ELSE Len(relationships))

\* The relationships a replace_graph run was handed
RelationshipsArg(p) == Relationships(arg[p].courses, have_sklearn)

RelIds(relationships) == [i \in DOMAIN relationships |-> relationships[i].rel_id]

GraphSnapshot(g) == [valid |-> TRUE, graph |-> g]

----------------------------------------------------------------------------
(* Neo4jGraphStore.replace_graph, one step per transaction.                *)

\* replace_graph up to its first transaction
StartReplaceGraph(p, rows) ==
    /\ MayStart(p)
    /\ MutexFree(p, "replace_graph")
    /\ op' = [op EXCEPT ![p] = "replace_graph"]
    /\ arg' = [arg EXCEPT ![p] = [NoArg EXCEPT !.courses = rows]]
    /\ loc' = [loc EXCEPT ![p] = [NoLoc EXCEPT !.prev = last_replace,
                                               !.relationships =
                                                   Relationships(rows, have_sklearn)]]
    /\ IF loc'[p].relationships = <<>>
       THEN /\ pc' = [pc EXCEPT ![p] = "done"]
            /\ ret' = [ret EXCEPT ![p] = [kind |-> "value"]]
            /\ snap' = [snap EXCEPT ![p] = GraphSnapshot(graph)]
            /\ last_replace' = p
       ELSE /\ pc' = [pc EXCEPT ![p] = "clear"]
            /\ last_replace' = 0
            /\ UNCHANGED <<ret, snap>>
    /\ UNCHANGED <<kg_store, chunk_store, graph, calls, last_index>>
    /\ UnchangedConfig

\* session.execute_write(self._clear_graph)
ClearGraph(p, ok) ==
    /\ pc[p] = "clear"
    /\ calls' = [calls EXCEPT ![p] =
                    Append(@, Call("graph", "clear", IF ok THEN "ok" ELSE "error", <<>>))]
    /\ IF ok
       THEN /\ graph' = ClearGraphTx(graph)
            /\ pc' = [pc EXCEPT ![p] = "write"]
            /\ UNCHANGED <<ret, last_replace>>
       ELSE /\ pc' = [pc EXCEPT ![p] = "raised"]
            /\ ret' = [ret EXCEPT ![p] = [kind |-> "error"]]
            /\ last_replace' = p
            /\ UNCHANGED graph
    /\ UNCHANGED <<kg_store, chunk_store, op, arg, loc, snap, last_index>>
    /\ UnchangedConfig

\* One iteration of the batch loop: session.execute_write(self._write_batch,
\* batch), then range() moves start by batch_size.
WriteBatch(p, ok) ==
    /\ pc[p] = "write"
    /\ LET relationships == loc[p].relationships
           start == loc[p].start
           batch == Slice(relationships, start, start + batch_size)
           more == start + batch_size < Len(relationships)
       IN  /\ calls' = [calls EXCEPT ![p] =
                          Append(@, Call("graph", "write", IF ok THEN "ok" ELSE "error",
                                         RelIds(batch)))]
           /\ IF ok
              THEN /\ graph' = WriteBatchTx(graph, batch)
                   /\ loc' = [loc EXCEPT ![p].start = start + batch_size]
                   /\ pc' = [pc EXCEPT ![p] = IF more THEN "write" ELSE "done"]
                   /\ IF more
                      THEN UNCHANGED <<ret, snap, last_replace>>
                      ELSE /\ ret' = [ret EXCEPT ![p] = [kind |-> "value"]]
                           /\ snap' = [snap EXCEPT ![p] = GraphSnapshot(graph')]
                           /\ last_replace' = p
              ELSE /\ pc' = [pc EXCEPT ![p] = "raised"]
                   /\ ret' = [ret EXCEPT ![p] = [kind |-> "error"]]
                   /\ last_replace' = p
                   /\ UNCHANGED <<graph, loc, snap>>
    /\ UNCHANGED <<kg_store, chunk_store, op, arg, last_index>>
    /\ UnchangedConfig

----------------------------------------------------------------------------
(* get_entity and neighbors, in graph_store.py and in the older            *)
(* neo4j_graph_store.py.                                                   *)

\* The two modules that define a Neo4jGraphStore
GraphStoreModules == {"graph_store", "neo4j_graph_store"}

\* The values looked up
QueryValues == {<<"f", "i", "b", "e", "r", "_", "a", "r", "t", "s">>, <<"A", "D", "A">>, <<"b", "r", "e", "a", "d">>, <<"B", "r", "e", "a", "d", " ", "A", "r", "t">>, <<"z", "z", "z">>, <<"b", "o", "_", "b", "o">>}

\* Every uid and name a node can carry, as characters
TextsOf(table) ==
    UNION {UNION {{r.subject_props.uid, r.subject_props.name,
                   r.object_props.uid, r.object_props.name} :
                  r \in Range(table[rows].chars)} : rows \in DOMAIN table}

TextPool == TextsOf(RelationshipsWithSklearn) \cup TextsOf(RelationshipsWithoutSklearn)

\* toLower(text) = toLower($value)
EqualsIgnoringCase(text, value) == ToLower(text) = ToLower(value)

\* toLower(text) CONTAINS toLower($value)
ContainsIgnoringCase(text, value) == Contains(ToLower(text), ToLower(value))

\* Both comparisons of one text with every query value, computed once
RECURSIVE MatchesOfText(_, _)
MatchesOfText(text, values) ==
    IF values = {} THEN <<>>
    ELSE LET value == CHOOSE v \in values : TRUE
         IN  (PyStr(value) :> [equals |-> EqualsIgnoringCase(text, value),
                               contains |-> ContainsIgnoringCase(text, value)])
             @@ MatchesOfText(text, values \ {value})

NamedTexts == {<<PyStr(text), text>> : text \in TextPool}

\* toLower(text) = toLower($value) and toLower(text) CONTAINS
\* toLower($value), for every text a node can carry and every value
Collation ==
    [t \in {named[1] : named \in NamedTexts} |->
        MatchesOfText((CHOOSE named \in NamedTexts : named[1] = t)[2], QueryValues)]

\* MATCH (n:Entity) WHERE n.uid = $slug OR toLower(n.name) = toLower($value)
ExactMatches(g, value) ==
    {uid \in DOMAIN g.nodes :
        uid = value \/ collation[g.nodes[uid].name][value].equals}

\* MATCH (n:Entity) WHERE toLower(n.name) CONTAINS toLower($value)
\*                     OR toLower(n.uid) CONTAINS toLower($value)
SubstringMatches(g, value) ==
    {uid \in DOMAIN g.nodes :
        collation[g.nodes[uid].name][value].contains \/ collation[uid][value].contains}

\* {"uid": ..., "name": ..., "properties": dict(node)}
Entity(node) ==
    [is_none |-> FALSE, uid |-> node.uid, name |-> node.name, properties |-> node]

\* _fetch_entity: the records it can return.  LIMIT 1 without ORDER BY
\* returns any one of the matching nodes.
FetchEntity(g, value, module) ==
    IF ExactMatches(g, value) # {}
    THEN {Entity(g.nodes[uid]) : uid \in ExactMatches(g, value)}
    ELSE IF module = "graph_store" /\ SubstringMatches(g, value) # {}
    THEN {Entity(g.nodes[uid]) : uid \in SubstringMatches(g, value)}
    ELSE {NoEntity}

\* The edges _fetch_neighbors' pattern matches
NeighborEdges(g, uid, direction) ==
    {e \in DOMAIN g.edges : IF direction = "out" THEN e[1] = uid ELSE e[3] = uid}

\* One row of _fetch_neighbors
NeighborRow(g, e, direction) ==
    LET m == IF direction = "out" THEN e[3] ELSE e[1]
    IN  [neighbor |-> g.nodes[m].name,
         neighbor_uid |-> m,
         predicate |-> g.edges[e].predicate,
         direction |-> direction,
         text |-> g.edges[e].text]

\* A query that drops its LIMIT
FetchNeighborsUnlimited(g, uid, direction, limit) ==
    LET edges == NeighborEdges(g, uid, direction)
        k == Cardinality(edges)
        picks == {s \in [1..k -> edges] : \A i, j \in 1..k : s[i] = s[j] => i = j}
    IN  {[i \in 1..k |-> NeighborRow(g, s[i], direction)] : s \in picks}

\* _fetch_neighbors: the lists it can return.  LIMIT $limit without ORDER
\* BY returns any min(limit, matches) of the matching rows, in any order.
FetchNeighbors(g, uid, direction, limit) ==
    LET edges == NeighborEdges(g, uid, direction)
        k == IF limit < Cardinality(edges) THEN limit ELSE Cardinality(edges)
        picks == {s \in [1..k -> edges] : \A i, j \in 1..k : s[i] = s[j] => i = j}
    IN  {[i \in 1..k |-> NeighborRow(g, s[i], direction)] : s \in picks}

\* A miss reported as a hit without neighbors
NotFoundAsFound(value) ==
    [kind |-> "value", found |-> TRUE, entity |-> value, neighbors |-> <<>>]

\* {"found": False, "entity": value, "neighbors": []}
NotFound(value) ==
    [kind |-> "value", found |-> FALSE, entity |-> value, neighbors |-> <<>>]

\* {"found": True, "entity": ..., "uid": ..., "properties": ..., "neighbors": ...}
Found(entity, neighbors) ==
    [kind |-> "value", found |-> TRUE, entity |-> entity.name, uid |-> entity.uid,
     properties |-> entity.properties, neighbors |-> neighbors]

\* get_entity: one read transaction
GetEntity(p, value, module) ==
    /\ MayStart(p)
    /\ op' = [op EXCEPT ![p] = "get_entity"]
    /\ arg' = [arg EXCEPT ![p] = [NoArg EXCEPT !.value = value, !.store = module]]
    /\ \E record \in FetchEntity(graph, value, module) :
          ret' = [ret EXCEPT ![p] = [kind |-> "value", entity |-> record]]
    /\ pc' = [pc EXCEPT ![p] = "done"]
    /\ snap' = [snap EXCEPT ![p] = GraphSnapshot(graph)]
    /\ UNCHANGED <<kg_store, chunk_store, graph, loc, calls, last_index, last_replace>>
    /\ UnchangedConfig

\* neighbors up to the end of its get_entity
StartNeighbors(p, value, limit, module) ==
    /\ MayStart(p)
    /\ op' = [op EXCEPT ![p] = "neighbors"]
    /\ arg' = [arg EXCEPT ![p] = [NoArg EXCEPT !.value = value, !.limit = limit,
                                               !.store = module]]
    /\ \E entity \in FetchEntity(graph, value, module) :
          /\ loc' = [loc EXCEPT ![p] = [NoLoc EXCEPT !.entity = entity,
                                                      !.prev = last_replace]]
          /\ IF entity.is_none
             THEN /\ pc' = [pc EXCEPT ![p] = "done"]
                  /\ ret' = [ret EXCEPT ![p] = NotFound(value)]
             ELSE /\ pc' = [pc EXCEPT ![p] = "out"]
                  /\ UNCHANGED ret
    /\ snap' = [snap EXCEPT ![p] = GraphSnapshot(graph)]
    /\ UNCHANGED <<kg_store, chunk_store, graph, calls, last_index, last_replace>>
    /\ UnchangedConfig

\* session.execute_read(self._fetch_neighbors, uid, "out", limit)
NeighborsOut(p) ==
    /\ pc[p] = "out"
    /\ \E outgoing \in FetchNeighbors(graph, loc[p].entity.uid, "out", arg[p].limit) :
          loc' = [loc EXCEPT ![p].outgoing = outgoing]
    /\ pc' = [pc EXCEPT ![p] = "in"]
    /\ UNCHANGED <<kg_store, chunk_store, graph, op, arg, ret, calls, snap,
                   last_index, last_replace>>
    /\ UnchangedConfig

\* session.execute_read(self._fetch_neighbors, uid, "in", limit), then the
\* return of outgoing + incoming
NeighborsIn(p) ==
    /\ pc[p] = "in"
    /\ \E incoming \in FetchNeighbors(graph, loc[p].entity.uid, "in", arg[p].limit) :
          ret' = [ret EXCEPT ![p] = Found(loc[p].entity, loc[p].outgoing \o incoming)]
    /\ pc' = [pc EXCEPT ![p] = "done"]
    /\ UNCHANGED <<kg_store, chunk_store, graph, op, arg, loc, calls, snap,
                   last_index, last_replace>>
    /\ UnchangedConfig

----------------------------------------------------------------------------
(* Properties of indexing into the vector collections.                     *)

IndexDone(p) == op[p] = "index_courses" /\ pc[p] = "done"

NoError(log) == \A i \in DOMAIN log : log[i].outcome = "ok"

\* How many entries a collection holds under an id
Copies(collection, id) == IF id \in DOMAIN collection THEN collection[id] ELSE 0

\* C1: once index_courses(C) has completed, with no other run overlapping
\* it, the triple collection and the chunk collection each hold exactly the
\* ids built from C.
C1_IndexHoldsExactlyBuiltIds ==
    \A p \in Callers :
        (serialized /\ IndexDone(p)) =>
            /\ HeldIds(snap[p].kg) = Range(loc[p].kg_ids)
            /\ HeldIds(snap[p].chunk) = Range(loc[p].chunk_ids)

C4_AddOnlyAfterCompletedDelete ==
    \A p \in Callers : \A i \in DOMAIN calls[p] :
        (calls[p][i].store \in {"kg", "chunk"} /\ calls[p][i].method = "add") =>
            /\ i > 1
            /\ calls[p][i - 1].store = calls[p][i].store
            /\ calls[p][i - 1].method = "delete"
            /\ calls[p][i - 1].outcome = "ok"

\* C5: a vector-store call that fails is the last call of its run, and the
\* run has raised the error to its caller.
C5_StoreErrorPropagates ==
    \A p \in Callers : \A i \in DOMAIN calls[p] :
        (op[p] = "index_courses" /\ calls[p][i].outcome = "error") =>
            /\ i = Len(calls[p])
            /\ pc[p] = "raised"

\* C7: when the index runs are serialized per collection and every store
\* call succeeds, the collections end up holding what one of the runs
\* leaves when executed alone.
C7_SerializedRunsLeaveOneRunsContent ==
    (/\ serialized
     /\ \A p \in Callers : IndexDone(p) /\ NoError(calls[p])) =>
        \E p \in Callers :
            /\ kg_store = BagOfIds(loc[p].kg_ids)
            /\ chunk_store = BagOfIds(loc[p].chunk_ids)

----------------------------------------------------------------------------
(* Properties of the graph store.                                          *)

ReplaceDone(p) == op[p] = "replace_graph" /\ pc[p] = "done"

NodeIds(relationships) ==
    {relationships[i].subject_id : i \in DOMAIN relationships}
        \cup {relationships[i].object_id : i \in DOMAIN relationships}

EdgeRids(g) == {e[2] : e \in DOMAIN g.edges}

\* C2: once replace_graph(R) has returned, with no other run overlapping
\* it, the graph holds one node per uid of R and one edge per relationship
\* id of R, and nothing else.
C2_GraphHoldsExactlyR ==
    \A p \in Callers :
        (serialized /\ ReplaceDone(p)) =>
            LET relationships == RelationshipsArg(p)
                g == snap[p].graph
            IN  /\ DOMAIN g.nodes = NodeIds(relationships)
                /\ EdgeRids(g) = Range(RelIds(relationships))
                /\ Cardinality(DOMAIN g.edges) = Cardinality(Range(RelIds(relationships)))

\* C6: the replace_graph run that returns right after a run that raised
\* leaves the graph that its own relationships build from an empty graph.
C6_NextRunRepairsFailedRun ==
    \A p \in Callers :
        (/\ serialized
         /\ ReplaceDone(p)
         /\ loc[p].prev # 0
         /\ pc[loc[p].prev] = "raised") =>
            snap[p].graph = WriteBatchTx(EmptyGraph, RelationshipsArg(p))

\* The transactions of a run, as far as it has come: the clear first, then
\* writes of 1..b consecutive relationships, in input order
GraphWrites(log) == SubSeq(log, 2, Len(log))

RECURSIVE ConcatBatches(_)
ConcatBatches(log) ==
    IF log = <<>> THEN <<>> ELSE Head(log).batch \o ConcatBatches(Tail(log))

IsPrefix(s, t) == Len(s) <= Len(t) /\ s = SubSeq(t, 1, Len(s))

\* the batch size in effect: a configured size below 1 counts as 1
EffectiveBatch == IF batch_size_arg < 1 THEN 1 ELSE batch_size_arg

\* C8: a replace_graph run on n > 0 relationships issues the clear first
\* and only once, then writes of at most b consecutive relationships each,
\* in input order; a run that has returned has issued ceil(n/b) writes that
\* together carry every relationship once.  b is 1 when the configured
\* size is below 1.
C8_OneClearThenCeilBatches ==
    \A p \in Callers :
        (op[p] = "replace_graph" /\ calls[p] # <<>>) =>
            LET ids == RelIds(RelationshipsArg(p))
                n == Len(ids)
                writes == GraphWrites(calls[p])
            IN  /\ calls[p][1].method = "clear"
                /\ \A i \in DOMAIN writes :
                      /\ writes[i].method = "write"
                      /\ Len(writes[i].batch) \in 1..EffectiveBatch
                /\ IsPrefix(ConcatBatches(writes), ids)
                /\ pc[p] = "done" =>
                      /\ Len(writes) = (n + EffectiveBatch - 1) \div EffectiveBatch
                      /\ ConcatBatches(writes) = ids

\* C8 witness: a run has returned after more than one write, the last of
\* them shorter than the configured batch size.
C8_Witness ==
    \E p \in Callers :
        /\ ReplaceDone(p)
        /\ Len(calls[p]) > 2
        /\ Len(calls[p][Len(calls[p])].batch) < batch_size_arg

\* C8 witness for the clamp: a run configured with batch size 0 has
\* returned.
C8_WitnessClamp ==
    \E p \in Callers : ReplaceDone(p) /\ batch_size_arg < 1 /\ Len(calls[p]) > 2

\* C9: a neighbors call whose get_entity resolved nothing returns found =
\* false with no neighbors; in every result found = false comes with an
\* empty neighbors list, and found = true exactly when the entity was
\* resolved.
C9_UnresolvedIsNotFound ==
    \A p \in Callers :
        (op[p] = "neighbors" /\ pc[p] = "done") =>
            /\ ret[p].kind = "value"
            /\ loc[p].entity.is_none => (~ret[p].found /\ ret[p].neighbors = <<>>)
            /\ ~ret[p].found => ret[p].neighbors = <<>>
            /\ ret[p].found <=> ~loc[p].entity.is_none

\* C9 witness: neighbors has returned for a value that no node of a
\* non-empty graph matches.
C9_Witness ==
    \E p \in Callers :
        /\ op[p] = "neighbors"
        /\ pc[p] = "done"
        /\ loc[p].entity.is_none
        /\ snap[p].graph # EmptyGraph

\* C10: get_entity returns an exact match whenever there is one, a
\* substring match when there is no exact match but a substring match, and
\* None exactly when no node matches by substring.
C10_ExactThenSubstring ==
    \A p \in Callers :
        (op[p] = "get_entity" /\ pc[p] = "done") =>
            LET g == snap[p].graph
                value == arg[p].value
                entity == ret[p].entity
            IN  /\ ExactMatches(g, value) # {} =>
                      (~entity.is_none /\ entity.uid \in ExactMatches(g, value))
                /\ (ExactMatches(g, value) = {} /\ SubstringMatches(g, value) # {}) =>
                      (~entity.is_none /\ entity.uid \in SubstringMatches(g, value))
                /\ entity.is_none <=> SubstringMatches(g, value) = {}


----------------------------------------------------------------------------
(* Properties of neighbors' result list.                                   *)

NeighborsFound(p) == op[p] = "neighbors" /\ pc[p] = "done" /\ ret[p].found

\* No replace_graph run was under way when the call started, and none has
\* started since: both reads saw the graph of snap[p]
ReadQuietly(p) == loc[p].prev # 0 /\ last_replace = loc[p].prev

Entries(p, direction) ==
    {i \in DOMAIN ret[p].neighbors : ret[p].neighbors[i].direction = direction}

Smaller(a, b) == IF a < b THEN a ELSE b

\* C11: for a resolved entity neighbors returns at most limit entries
\* tagged "out" followed by at most limit entries tagged "in", at most
\* 2 * limit in all; over a graph that no run is replacing, the entries of
\* each direction are min(limit, edges in that direction) rows of that
\* direction's edges, whatever the other direction returned.
C11_NeighborsPerDirection ==
    \A p \in Callers :
        NeighborsFound(p) =>
            LET rows == ret[p].neighbors
                limit == arg[p].limit
                g == snap[p].graph
            IN  /\ \A i \in DOMAIN rows : rows[i].direction \in {"out", "in"}
                /\ \A i \in Entries(p, "out") : \A j \in Entries(p, "in") : i < j
                /\ Cardinality(Entries(p, "out")) <= limit
                /\ Cardinality(Entries(p, "in")) <= limit
                /\ Len(rows) <= 2 * limit
                /\ ReadQuietly(p) =>
                      \A direction \in {"out", "in"} :
                          /\ Cardinality(Entries(p, direction))
                                = Smaller(limit, Cardinality(NeighborEdges(g, ret[p].uid, direction)))
                          /\ \A i \in Entries(p, direction) :
                                \E e \in NeighborEdges(g, ret[p].uid, direction) :
                                    rows[i] = NeighborRow(g, e, direction)

\* C11 witness: the entity has more outgoing edges than limit, and one node
\* is listed both as an outgoing and as an incoming neighbour.
C11_Witness ==
    \E p \in Callers :
        /\ NeighborsFound(p)
        /\ ReadQuietly(p)
        /\ Cardinality(NeighborEdges(snap[p].graph, ret[p].uid, "out")) > arg[p].limit
        /\ \E i \in Entries(p, "out") : \E j \in Entries(p, "in") :
              ret[p].neighbors[i].neighbor_uid = ret[p].neighbors[j].neighbor_uid

----------------------------------------------------------------------------
(* Result shaping: hybrid_search and the two _shape_results.               *)

\* Python values of a provider response: None, a list, and the scalars a
\* list holds (a document or id str, a metadata dict, a distance float)
PyNone == [tag |-> "none", items |-> <<>>, text |-> <<>>]
PyList(items) == [tag |-> "list", items |-> items, text |-> <<>>]
PyAtom(tag, text) == [tag |-> tag, items |-> <<>>, text |-> text]

\* bool(value)
Truthy(value) ==
    CASE value.tag = "list" -> value.items # <<>>
      [] value.tag = "none" -> FALSE
      [] value.tag = "int" -> value.text # <<"0">>
      [] value.tag = "bool" -> value.text = <<"t", "r", "u", "e">>
      [] OTHER -> value.text # <<>>

\* len(value) of a list or a str
PyLen(value) == IF value.tag = "list" THEN Len(value.items) ELSE Len(value.text)

Fields == {"documents", "metadatas", "distances", "ids"}

\* The i-th hit's entry in a field
AtomOf(field, i) ==
    CASE field = "documents" -> PyAtom("str", <<"d", "o", "c", "-">> \o <<LowerCaseChars[i]>>)
      [] field = "metadatas" -> PyAtom("dict", <<"c", "o", "u", "r", "s", "e", "_", "i", "d", "=">> \o IntToStr(i))
      [] field = "distances" -> PyAtom("float", <<"0", ".">> \o IntToStr(i))
      [] field = "ids" -> PyAtom("str", <<LowerCaseChars[i]>>)

FlatField(field, n) == PyList([i \in 1..n |-> AtomOf(field, i)])

\* One inner list per query text
NestedField(field, n, queries) == PyList([q \in 1..queries |-> FlatField(field, n)])

Shapes == [Fields -> {"flat", "nested"}]

\* A response of n hits whose fields have the given shapes
Response(n, shape) ==
    [field \in Fields |->
        IF shape[field] = "flat" THEN FlatField(field, n) ELSE NestedField(field, n, 1)]

ShapedResponses == {Response(n, shape) : n \in 0..MaxHits, shape \in Shapes}

\* VertexAIVectorSearchProvider._query_v1 on len(query_texts) = queries when
\* find_neighbors returns n neighbors
QueryV1(n, queries) ==
    [field \in Fields |->
        IF field \in {"ids", "distances"}
        THEN IF n > 0 THEN NestedField(field, n, 1) ELSE PyList(<<PyList(<<>>)>>)
        ELSE NestedField(field, 0, queries)]

\* What store.query(query_texts=[query], n_results=k) returns, by provider:
\* one inner list per query, the legacy Vertex AI response, a flat response
ProviderResponses ==
    {Response(n, [field \in Fields |-> "nested"]) : n \in 0..MaxHits}
        \cup {QueryV1(n, 1) : n \in 0..MaxHits}
        \cup {Response(n, [field \in Fields |-> "flat"]) : n \in 0..MaxHits}

Envelope(documents, metadatas, distances, ids) ==
    [documents |-> documents, metadatas |-> metadatas, distances |-> distances,
     ids |-> ids, count |-> PyLen(documents)]

\* BaseRAGService._shape_results._nested
Nested(value) ==
    IF ~Truthy(value) THEN PyList(<<PyList(<<>>)>>)
    ELSE IF value.items[1].tag = "list" THEN value
    ELSE PyList(<<value>>)

BaseRAGService_shape_results(results) ==
    Envelope(Nested(results["documents"]).items[1], Nested(results["metadatas"]).items[1],
             Nested(results["distances"]).items[1], Nested(results["ids"]).items[1])

\* (value or [[]])[0]
OrEmptyFirst(value) ==
    IF Truthy(value) THEN value.items[1] ELSE PyList(<<>>)

GraphRAGService_shape_results(results) ==
    Envelope(OrEmptyFirst(results["documents"]), OrEmptyFirst(results["metadatas"]),
             OrEmptyFirst(results["distances"]), OrEmptyFirst(results["ids"]))

Shapers == {"base_rag_service", "graph_rag_service"}

ShapeResultsOf(shaper, results) ==
    IF shaper = "base_rag_service" THEN BaseRAGService_shape_results(results)
    ELSE GraphRAGService_shape_results(results)

UnchangedStores ==
    UNCHANGED <<kg_store, chunk_store, graph, loc, calls, snap, last_index, last_replace>>

\* _shape_results(results)
ShapeResults(p, shaper, results) ==
    /\ MayStart(p)
    /\ op' = [op EXCEPT ![p] = "_shape_results"]
    /\ arg' = [arg EXCEPT ![p] = [shaper |-> shaper, results |-> results]]
    /\ ret' = [ret EXCEPT ![p] = ShapeResultsOf(shaper, results)]
    /\ pc' = [pc EXCEPT ![p] = "done"]
    /\ UnchangedStores
    /\ UnchangedConfig

\* GraphRAGService.hybrid_search, the two store.query calls returning
\* kg_results and chunk_results
HybridSearch(p, kg_results, chunk_results) ==
    /\ MayStart(p)
    /\ op' = [op EXCEPT ![p] = "hybrid_search"]
    /\ arg' = [arg EXCEPT ![p] = [kg_results |-> kg_results, chunk_results |-> chunk_results]]
    /\ ret' = [ret EXCEPT ![p] = [kg |-> GraphRAGService_shape_results(kg_results),
                                  chunks |-> GraphRAGService_shape_results(chunk_results)]]
    /\ pc' = [pc EXCEPT ![p] = "done"]
    /\ UnchangedStores
    /\ UnchangedConfig

IsFlat(value) == value.tag = "list" /\ \A i \in DOMAIN value.items : value.items[i].tag # "list"

IsNested(value) == value.tag = "list" /\ value.items # <<>>
                      /\ \A i \in DOMAIN value.items : value.items[i].tag = "list"

ParallelArrays(envelope) ==
    \A field \in Fields :
        /\ envelope[field].tag = "list"
        /\ Len(envelope[field].items) = envelope.count

Searched(p) == op[p] = "hybrid_search" /\ pc[p] = "done"

\* C12: whenever every field of both provider responses is a nested list
\* or a flat list, each envelope hybrid_search returns (kg and chunks) has
\* documents, metadatas, distances and ids that are lists of one length,
\* and count is that length.
C12_EnvelopeArraysParallel ==
    \A p \in Callers :
        Searched(p) =>
            /\ (\A field \in Fields : IsFlat(arg[p].kg_results[field]) \/ IsNested(arg[p].kg_results[field]))
                  => ParallelArrays(ret[p].kg)
            /\ (\A field \in Fields : IsFlat(arg[p].chunk_results[field]) \/ IsNested(arg[p].chunk_results[field]))
                  => ParallelArrays(ret[p].chunks)

Shaped(p) == op[p] = "_shape_results" /\ pc[p] = "done"

\* The envelope the normalization is to return for a response
Normalized(results) ==
    LET Of(value) == IF IsNested(value) THEN value.items[1] ELSE value
    IN  Envelope(Of(results["documents"]), Of(results["metadatas"]),
                 Of(results["distances"]), Of(results["ids"]))

AllFlat(results) == \A field \in Fields : IsFlat(results[field])
AllNested(results) == \A field \in Fields : IsNested(results[field])

\* C13: both shapers return a flat-list response's documents, metadatas,
\* distances and ids unchanged with count the number of documents, and a
\* nested-list response's first inner list of each field.
C13_FlatUnchangedNestedFirst ==
    \A p \in Callers :
        Shaped(p) /\ (AllFlat(arg[p].results) \/ AllNested(arg[p].results)) =>
            ret[p] = Normalized(arg[p].results)

\* BaseRAGService._shape_results alone
BaseShaperNormalizes ==
    \A p \in Callers :
        Shaped(p) /\ arg[p].shaper = "base_rag_service"
                  /\ (AllFlat(arg[p].results) \/ AllNested(arg[p].results)) =>
            ret[p] = Normalized(arg[p].results)

----------------------------------------------------------------------------
(* The builders called on their own.                                       *)

\* graph_builders.build_kg_triples and build_graph_relationships of every
\* course list, with and without sklearn
GraphBuilds ==
    [rows \in BuilderLists |->
        [sklearn_present \in BOOLEAN |->
            LET triples == graph_builders_build_kg_triples(Courses(rows), sklearn_present)
            IN  [kind |-> "value", triples |-> triples,
                 relationships |-> build_graph_relationships(triples)]]]

\* graph_rag_service.build_kg_triples of every course list
ServiceBuilds ==
    [rows \in BuilderLists |->
        IF AnalyticsRaises(Courses(rows))
        THEN [kind |-> "error", triples |-> <<>>, relationships |-> <<>>]
        ELSE [kind |-> "value", triples |-> build_kg_triples(Courses(rows)),
              relationships |-> <<>>]]

BuilderModules == {"graph_builders", "graph_rag_service"}

Returned(p, value) ==
    /\ ret' = [ret EXCEPT ![p] = value]
    /\ pc' = [pc EXCEPT ![p] = IF value.kind = "error" THEN "raised" ELSE "done"]
    /\ UnchangedStores
    /\ UnchangedConfig

\* build_kg_triples(courses) of either module
BuildKgTriples(p, rows, module) ==
    /\ MayStart(p)
    /\ op' = [op EXCEPT ![p] = "build_kg_triples"]
    /\ arg' = [arg EXCEPT ![p] = [courses |-> rows, module |-> module]]
    /\ IF module = "graph_builders"
       THEN \E built \in {GraphBuilds[rows][have_sklearn]} :
               Returned(p, [built EXCEPT !.relationships = <<>>])
       ELSE \E built \in {ServiceBuilds[rows]} : Returned(p, built)

\* build_graph_relationships(build_kg_triples(courses)) of graph_builders
BuildGraphRelationships(p, rows) ==
    /\ MayStart(p)
    /\ op' = [op EXCEPT ![p] = "build_graph_relationships"]
    /\ arg' = [arg EXCEPT ![p] = [courses |-> rows, module |-> "graph_builders"]]
    /\ \E built \in {GraphBuilds[rows][have_sklearn]} : Returned(p, built)

Built(p, operation) == op[p] = operation /\ pc[p] = "done"

\* What a triple is built from: subject, predicate, object and the course
\* identifiers it carries
TripleKey(triple) ==
    <<triple.metadata.subject, triple.metadata.predicate, triple.metadata.object,
      triple.metadata.course_id, triple.metadata.class_id>>

DistinctIds(triples) ==
    \A i \in DOMAIN triples : \A j \in DOMAIN triples :
        triples[i].id = triples[j].id => i = j

\* C15: the list build_kg_triples returns, in either module, holds no two
\* triples with the same id.
C15_NoDuplicateTripleIds ==
    \A p \in Callers : Built(p, "build_kg_triples") => DistinctIds(ret[p].triples)

\* graph_builders.build_kg_triples alone
GraphBuildersDistinctIds ==
    \A p \in Callers :
        Built(p, "build_kg_triples") /\ arg[p].module = "graph_builders"
            => DistinctIds(ret[p].triples)

----------------------------------------------------------------------------
(* chunk_builder.CourseChunkBuilder.                                       *)

Quote == "\""

\* s.split(","), for a non-empty s
RECURSIVE SplitOnComma(_)
SplitOnComma(s) ==
    IF \A i \in DOMAIN s : s[i] # ","
    THEN <<s>>
    ELSE LET at == CHOOSE i \in DOMAIN s : s[i] = "," /\ \A j \in 1..(i - 1) : s[j] # ","
         IN  <<SubSeq(s, 1, at - 1)>> \o SplitOnComma(SubSeq(s, at + 1, Len(s)))

\* A JSON string without escapes
IsJsonString(s) ==
    /\ Len(s) >= 2
    /\ s[1] = Quote /\ s[Len(s)] = Quote
    /\ \A i \in 2..(Len(s) - 1) : s[i] \notin {Quote, "\\"}

\* json.loads(text) on the documents the course fields hold: null, true,
\* false, a non-negative integer, a string, a list of strings; anything
\* else raises JSONDecodeError.
json_loads(text) ==
    LET s == Strip(text, " ")
        inner == SubSeq(s, 2, Len(s) - 1)
        parts == IF Strip(inner, " ") = <<>> THEN <<>> ELSE SplitOnComma(inner)
        Decoded(value) == [ok |-> TRUE, value |-> value]
    IN  IF s = <<"n", "u", "l", "l">> THEN Decoded(PyNone)
        ELSE IF s \in {<<"t", "r", "u", "e">>, <<"f", "a", "l", "s", "e">>} THEN Decoded(PyAtom("bool", s))
        ELSE IF s # <<>> /\ (\A i \in DOMAIN s : IsDigit(s[i])) /\ (Len(s) = 1 \/ s[1] # "0")
             THEN Decoded(PyAtom("int", s))
        ELSE IF IsJsonString(s) THEN Decoded(PyAtom("str", inner))
        ELSE IF Len(s) >= 2 /\ s[1] = "[" /\ s[Len(s)] = "]"
                /\ \A i \in DOMAIN parts : IsJsonString(Strip(parts[i], " "))
             THEN Decoded(PyList([i \in DOMAIN parts |->
                            LET part == Strip(parts[i], " ")
                            IN  PyAtom("str", SubSeq(part, 2, Len(part) - 1))]))
        ELSE [ok |-> FALSE, value |-> PyNone]

\* core.utils.parse_json_fields
parse_json_fields(course) ==
    LET Parsed(val) ==
            IF Truthy(val) /\ val.tag = "str" /\ json_loads(val.text).ok
            THEN json_loads(val.text).value ELSE val
    IN  [course EXCEPT !.learning_objectives = Parsed(@),
                       !.provided_materials = Parsed(@),
                       !.skills = Parsed(@)]

\* chunk_builder._slugify
chunk_builder_slugify(value) ==
    LET lowered == ToLower(value)
        sanitized == Strip([i \in DOMAIN lowered |->
                               IF IsLower(lowered[i]) \/ IsDigit(lowered[i])
                               THEN lowered[i] ELSE "_"], "_")
    IN  IF value = <<>> \/ sanitized = <<>> THEN <<"i", "t", "e", "m">> ELSE sanitized

\* chunk_builder._course_identifier
chunk_builder_course_identifier(course) ==
    IF course.id # 0 THEN IntToStr(course.id)
    ELSE IF course.class_id # <<>> THEN course.class_id
    ELSE chunk_builder_slugify(IF course.title # <<>> THEN course.title ELSE <<"c", "o", "u", "r", "s", "e">>)

\* CourseChunkBuilder.FIELD_MAPPINGS
FIELD_MAPPINGS ==
    << <<"skills", <<"s", "k", "i", "l", "l">>>>, <<"learning_objectives", <<"o", "b", "j", "e", "c", "t", "i", "v", "e">>>>,
       <<"provided_materials", <<"m", "a", "t", "e", "r", "i", "a", "l">>>> >>

\* The three characters _truncate appends
TruncationMark == <<"U+00E2", "U+20AC", "U+00A6">>

\* CourseChunkBuilder._truncate; max_chars = 0 stands for None
Truncate(text, max_chars) ==
    IF max_chars # 0 /\ Len(text) > max_chars
    THEN LET cut == SubSeq(text, 1, max_chars)
             kept == {i \in DOMAIN cut : cut[i] # " "}
         IN  (IF kept = {} THEN <<>>
              ELSE SubSeq(cut, 1, CHOOSE i \in kept : \A j \in kept : i >= j))
                 \o TruncationMark
    ELSE text

\* CourseChunkBuilder._metadata, sanitize_metadata dropping the None values
ChunkMetadata(course) ==
    [course_id |-> course.id, class_id |-> PyStr(course.class_id),
     title |-> PyStr(course.title), course_type |-> PyStr(course.course_type),
     location |-> PyStr(course.location), instructor |-> PyStr(course.instructor)]

Chunk(id, text, course) == [id |-> PyStr(id), text |-> text, metadata |-> ChunkMetadata(course)]

\* Iterating a field's value raises TypeError
NotIterable(value) == Truthy(value) /\ value.tag \in {"int", "bool"}

\* The items a loop over a field's value visits: a str's characters, a
\* list's items
Iterated(value) ==
    IF value.tag = "str" THEN [i \in DOMAIN value.text |-> PyAtom("str", <<value.text[i]>>)]
    ELSE value.items

\* _build_simple_chunks: the loop over one list field
FieldChunks(course, label, value) ==
    LET values == IF ~Truthy(value) THEN <<>>
                  ELSE IF value.tag = "str" THEN <<value>>
                  ELSE value.items
        chunk_of == [idx \in DOMAIN values |->
                        Chunk(chunk_builder_course_identifier(course) \o <<"_">> \o label
                                 \o <<"_">> \o IntToStr(idx - 1),
                              Strip(values[idx].text, " "), course)]
        HasText(chunk) == chunk.text # <<>>
    IN  SelectSeq(chunk_of, HasText)

\* _build_simple_chunks: the loop over description and title
SingleFieldChunks(course, max_chars) ==
    LET Of(text, label) ==
            IF Strip(text, " ") = <<>> THEN <<>>
            ELSE <<Chunk(chunk_builder_course_identifier(course) \o <<"_">> \o label,
                         Truncate(Strip(text, " "), max_chars), course)>>
    IN  Of(course.description, <<"d", "e", "s", "c", "r", "i", "p", "t", "i", "o", "n">>) \o Of(course.title, <<"t", "i", "t", "l", "e">>)

\* CourseChunkBuilder._build_simple_chunks
build_simple_chunks(course, max_chars) ==
    IF \E m \in DOMAIN FIELD_MAPPINGS : NotIterable(course[FIELD_MAPPINGS[m][1]])
    THEN [kind |-> "error", chunks |-> <<>>]
    ELSE [kind |-> "value",
          chunks |-> FieldChunks(course, FIELD_MAPPINGS[1][2], course[FIELD_MAPPINGS[1][1]])
                     \o FieldChunks(course, FIELD_MAPPINGS[2][2], course[FIELD_MAPPINGS[2][1]])
                     \o FieldChunks(course, FIELD_MAPPINGS[3][2], course[FIELD_MAPPINGS[3][1]])
                     \o SingleFieldChunks(course, max_chars)]

\* _join dropping every section
JoinSectionDropped(value, label) == <<>>

\* _build_narrative_chunks._join: the section of one list field, if any
JoinSection(value, label) ==
    LET texts == [i \in DOMAIN Iterated(value) |-> Iterated(value)[i].text]
    IN  IF ~Truthy(value) \/ SelectNonEmpty(texts) = <<>> THEN <<>>
        ELSE <<label \o <<":", " ">> \o Join(<<",", " ">>, SelectNonEmpty(texts))>>

\* CourseChunkBuilder._build_narrative_chunks
build_narrative_chunks(course, max_chars) ==
    LET OrUnknown(text) == IF text = <<>> THEN <<"U", "n", "k", "n", "o", "w", "n">> ELSE text
        sections ==
            << <<"C", "o", "u", "r", "s", "e", " ", "T", "i", "t", "l", "e", ":", " ">> \o course.title,
               <<"C", "o", "u", "r", "s", "e", " ", "T", "y", "p", "e", ":", " ">> \o OrUnknown(course.course_type),
               <<"I", "n", "s", "t", "r", "u", "c", "t", "o", "r", ":", " ">> \o OrUnknown(course.instructor),
               <<"L", "o", "c", "a", "t", "i", "o", "n", ":", " ">> \o OrUnknown(course.location) >>
            \o JoinSection(course.skills, <<"S", "k", "i", "l", "l", "s">>)
            \o JoinSection(course.learning_objectives, <<"L", "e", "a", "r", "n", "i", "n", "g", " ", "O", "b", "j", "e", "c", "t", "i", "v", "e", "s">>)
            \o JoinSection(course.provided_materials, <<"P", "r", "o", "v", "i", "d", "e", "d", " ", "M", "a", "t", "e", "r", "i", "a", "l", "s">>)
            \o (IF course.description = <<>> THEN <<>>
                ELSE <<<<"D", "e", "s", "c", "r", "i", "p", "t", "i", "o", "n", ":", " ">> \o course.description>>)
        text == Join(<<".", " ">>, [i \in DOMAIN sections |-> Strip(sections[i], " ")])
    IN  IF course.title = <<>> THEN [kind |-> "value", chunks |-> <<>>]
        ELSE IF \E m \in DOMAIN FIELD_MAPPINGS : NotIterable(course[FIELD_MAPPINGS[m][1]])
        THEN [kind |-> "error", chunks |-> <<>>]
        ELSE [kind |-> "value",
              chunks |-> <<Chunk(<<"c", "h", "u", "n", "k", ":", ":">> \o chunk_builder_course_identifier(course),
                                 Truncate(text, max_chars), course)>>]

\* CourseChunkBuilder(mode, max_chars=max_chars).build(courses)
RECURSIVE CourseChunkBuilder_build(_, _, _)
CourseChunkBuilder_build(courses, mode, max_chars) ==
    IF courses = <<>> THEN [kind |-> "value", chunks |-> <<>>]
    ELSE LET parsed == parse_json_fields(Head(courses))
             first == IF mode = "narrative" THEN build_narrative_chunks(parsed, max_chars)
                      ELSE build_simple_chunks(parsed, max_chars)
             rest == CourseChunkBuilder_build(Tail(courses), mode, max_chars)
         IN  IF first.kind = "error" \/ rest.kind = "error"
             THEN [kind |-> "error", chunks |-> <<>>]
             ELSE [kind |-> "value", chunks |-> first.chunks \o rest.chunks]

\* A list of strs
StrList(texts) == PyList([i \in DOMAIN texts |-> PyAtom("str", texts[i])])

\* A course dict as the chunk builder receives it: the list fields hold
\* None, a list or a str
ChunkInput(course) ==
    LET ListField(texts) == IF texts = <<>> THEN PyNone ELSE StrList(texts)
    IN  [course EXCEPT !.skills = ListField(@), !.learning_objectives = ListField(@),
                       !.provided_materials = ListField(@)]

\* A course with every field set
SampleCourse ==
    [ChunkInput(Course(7, <<>>, <<"W", "a", "f", "f", "l", "e", " ", "W", "e", "a", "v", "i", "n", "g">>, <<"A", "d", "a">>, CulinaryArts, <<"L", "e", "e", "d", "s">>,
                       <<<<"g", "r", "i", "d", "d", "l", "e">>>>))
        EXCEPT !.skills = StrList(<<<<"p", "l", "a", "n", "n", "i", "n", "g">>, <<"b", "a", "t", "t", "e", "r">>>>),
               !.learning_objectives = PyAtom("str", <<"S", "e", "r", "v", "e", " ", "w", "a", "f", "f", "l", "e", "s">>),
               !.description = <<"W", "e", "a", "v", "e", " ", "w", "a", "f", "f", "l", "e", "s", ".">>]

\* What a list field may hold
FieldValues ==
    { PyNone, StrList(<<>>), StrList(<<<<"a">>>>), StrList(<<<<"a">>, <<"b">>>>),
      StrList(<<<<"a">>, <<>>, <<"b">>>>), StrList(<<<<"a">>, <<" ">>>>),
      PyAtom("str", <<>>), PyAtom("str", <<" ">>), PyAtom("str", <<"k", "n", "e", "a", "d", "i", "n", "g">>),
      PyAtom("str", <<"4", "2">>), PyAtom("str", <<"0">>), PyAtom("str", <<"t", "r", "u", "e">>),
      PyAtom("str", <<"n", "u", "l", "l">>),
      PyAtom("str", <<"[", Quote, "a", Quote, ",", Quote, "b", Quote, "]">>),
      PyAtom("str", <<Quote, "q", Quote>>) }

ChunkCourses ==
    {ChunkInput(AllCourses[i]) : i \in DOMAIN AllCourses}
        \cup {[SampleCourse EXCEPT ![FIELD_MAPPINGS[m][1]] = value] :
                 m \in DOMAIN FIELD_MAPPINGS, value \in FieldValues}
        \cup {[SampleCourse EXCEPT !.title = title, !.description = description, !.id = id] :
                 title \in {<<>>, <<" ">>, <<"B", "r", "e", "a", "d", " ", "A", "r", "t", "!">>}, description \in {<<>>, <<" ", "d", " ">>},
                 id \in {0, 7}}

\* Pairs of different courses whose identifiers coincide: the same id under
\* two titles, an id and an equal class_id, two titles with one slug
ChunkPairs ==
    { <<ChunkInput(AllCourses[1]), ChunkInput(AllCourses[6])>>,
      <<SampleCourse, [SampleCourse EXCEPT !.id = 0, !.class_id = <<"7">>, !.title = <<"B", "r", "e", "a", "d", " ", "A", "r", "t">>]>>,
      <<[SampleCourse EXCEPT !.id = 0, !.title = <<"B", "r", "e", "a", "d", " ", "A", "r", "t", "!">>],
        [SampleCourse EXCEPT !.id = 0, !.title = <<"B", "r", "e", "a", "d", "-", "A", "r", "t">>]>> }

\* The course lists handed to CourseChunkBuilder.build
ChunkLists ==
    {<<>>} \cup {<<course>> : course \in ChunkCourses}
           \cup {<<SampleCourse, course>> : course \in {ChunkInput(AllCourses[i]) : i \in DOMAIN AllCourses}}
           \cup ChunkPairs

ChunkModes == {"simple", "narrative"}

\* graph_builders.MAX_CHUNK_CHARS
MAX_CHUNK_CHARS == 2000

\* CourseChunkBuilder(mode).build(courses); build_course_chunks passes
\* max_chars=MAX_CHUNK_CHARS with the narrative mode
BuildChunks(p, courses, mode) ==
    /\ MayStart(p)
    /\ op' = [op EXCEPT ![p] = "build_chunks"]
    /\ arg' = [arg EXCEPT ![p] = [courses |-> courses, mode |-> mode]]
    /\ \E built \in {CourseChunkBuilder_build(courses, mode,
                        IF mode = "narrative" THEN MAX_CHUNK_CHARS ELSE 0)} :
          Returned(p, built)

ChunksBuilt(p, mode) ==
    op[p] = "build_chunks" /\ arg[p].mode = mode /\ pc[p] \in {"done", "raised"}

Blank(text) == Strip(text, " ") = <<>>

\* The chunks a list field is to contribute: none when it is missing or
\* empty, one for each item of a list, one for a single string
ExpectedOf(value) ==
    CASE value.tag = "none" -> 0
      [] value.tag = "list" -> Len(value.items)
      [] value.tag = "str" -> IF Blank(value.text) THEN 0 ELSE 1

\* A course with a title, a description and list fields that are missing,
\* lists of non-empty strings, or single strings
CountedCourse(course) ==
    /\ ~Blank(course.title) /\ ~Blank(course.description)
    /\ \A m \in DOMAIN FIELD_MAPPINGS :
          LET value == course[FIELD_MAPPINGS[m][1]]
          IN  value.tag = "list" => \A i \in DOMAIN value.items : ~Blank(value.items[i].text)

SimpleChunksAsCounted(p) ==
    LET course == arg[p].courses[1]
        Expected(m) == ExpectedOf(course[FIELD_MAPPINGS[m][1]])
    IN  /\ pc[p] = "done"
        /\ Len(ret[p].chunks) = Expected(1) + Expected(2) + Expected(3) + 2
        /\ \A m \in DOMAIN FIELD_MAPPINGS : \A idx \in 0..(Expected(m) - 1) :
              \E i \in DOMAIN ret[p].chunks :
                  ret[p].chunks[i].id =
                      PyStr(chunk_builder_course_identifier(course) \o <<"_">>
                               \o FIELD_MAPPINGS[m][2] \o <<"_">> \o IntToStr(idx))

\* C16: in simple mode a course with a title, a description and S skills,
\* O learning objectives and M provided materials gives S + O + M + 2
\* chunks, the list items under <course identifier>_<label>_<index>; a
\* missing or empty field gives none and a field that is one string gives
\* exactly one.
C16_SimpleChunkCount ==
    \A p \in Callers :
        ChunksBuilt(p, "simple") /\ Len(arg[p].courses) = 1
                                 /\ CountedCourse(arg[p].courses[1])
            => SimpleChunksAsCounted(p)

\* The same for courses none of whose fields is a string json.loads decodes
SimpleChunkCountOfPlainStrings ==
    \A p \in Callers :
        ChunksBuilt(p, "simple") /\ Len(arg[p].courses) = 1
                                 /\ CountedCourse(arg[p].courses[1])
                                 /\ parse_json_fields(arg[p].courses[1]) = arg[p].courses[1]
            => SimpleChunksAsCounted(p)

Titled(courses) == {i \in DOMAIN courses : courses[i].title # <<>>}

\* C17: in narrative mode build(courses) returns one chunk for each course
\* with a title and none for a course without, as many chunks as titled
\* courses.
C17_NarrativeOnePerTitledCourse ==
    \A p \in Callers :
        ChunksBuilt(p, "narrative") =>
            /\ pc[p] = "done"
            /\ Len(ret[p].chunks) = Cardinality(Titled(arg[p].courses))
            /\ \A i \in Titled(arg[p].courses) :
                  \E j \in DOMAIN ret[p].chunks :
                      ret[p].chunks[j].id =
                          PyStr(<<"c", "h", "u", "n", "k", ":", ":">> \o chunk_builder_course_identifier(arg[p].courses[i]))

\* The same for the builds that return
NarrativeOnePerTitledCourseIfReturned ==
    \A p \in Callers :
        ChunksBuilt(p, "narrative") /\ pc[p] = "done" =>
            Len(ret[p].chunks) = Cardinality(Titled(arg[p].courses))

\* Row of the course {id: 1, title: Sourdough Basics, instructor: Ada,
\* course_type: Culinary Arts, location: Leeds, skills: [kneading],
\* provided_materials: [starter]} among the courses
SourdoughRow == Len(Catalog) + 2

HasTriple(triples, subject, predicate, obj) ==
    \E i \in DOMAIN triples :
        /\ triples[i].metadata.subject = subject
        /\ triples[i].metadata.predicate = predicate
        /\ triples[i].metadata.object = obj

\* C18: for the Sourdough Basics course alone build_kg_triples returns its
\* has_instructor Ada, is_of_type Culinary Arts, taught_at Leeds and
\* provides_material starter triples and a belongs_to_theme triple into the
\* culinary theme, and the narrative chunk's text contains
\* "Course Title: Sourdough Basics" and "Provided Materials: starter".
C18_SourdoughExample ==
    \A p \in Callers :
        /\ Built(p, "build_kg_triples") /\ arg[p].module = "graph_builders"
                                        /\ arg[p].courses = <<SourdoughRow>>
              => /\ HasTriple(ret[p].triples, <<"S", "o", "u", "r", "d", "o", "u", "g", "h", " ", "B", "a", "s", "i", "c", "s">>, <<"h", "a", "s", "_", "i", "n", "s", "t", "r", "u", "c", "t", "o", "r">>, <<"A", "d", "a">>)
                 /\ HasTriple(ret[p].triples, <<"S", "o", "u", "r", "d", "o", "u", "g", "h", " ", "B", "a", "s", "i", "c", "s">>, <<"i", "s", "_", "o", "f", "_", "t", "y", "p", "e">>, <<"C", "u", "l", "i", "n", "a", "r", "y", " ", "A", "r", "t", "s">>)
                 /\ HasTriple(ret[p].triples, <<"S", "o", "u", "r", "d", "o", "u", "g", "h", " ", "B", "a", "s", "i", "c", "s">>, <<"t", "a", "u", "g", "h", "t", "_", "a", "t">>, <<"L", "e", "e", "d", "s">>)
                 /\ HasTriple(ret[p].triples, <<"S", "o", "u", "r", "d", "o", "u", "g", "h", " ", "B", "a", "s", "i", "c", "s">>, <<"p", "r", "o", "v", "i", "d", "e", "s", "_", "m", "a", "t", "e", "r", "i", "a", "l">>, <<"s", "t", "a", "r", "t", "e", "r">>)
                 /\ HasTriple(ret[p].triples, <<"S", "o", "u", "r", "d", "o", "u", "g", "h", " ", "B", "a", "s", "i", "c", "s">>, <<"b", "e", "l", "o", "n", "g", "s", "_", "t", "o", "_", "t", "h", "e", "m", "e">>,
                              <<"C", "u", "l", "i", "n", "a", "r", "y", " ", "A", "r", "t", "s", " ", "a", "n", "d", " ", "F", "o", "o", "d", " ", "C", "l", "u", "s", "t", "e", "r">>)
        /\ ChunksBuilt(p, "narrative") /\ arg[p].courses = <<ChunkInput(AllCourses[SourdoughRow])>>
              => /\ pc[p] = "done"
                 /\ Len(ret[p].chunks) = 1
                 /\ Contains(ret[p].chunks[1].text, <<"C", "o", "u", "r", "s", "e", " ", "T", "i", "t", "l", "e", ":", " ", "S", "o", "u", "r", "d", "o", "u", "g", "h", " ", "B", "a", "s", "i", "c", "s">>)
                 /\ Contains(ret[p].chunks[1].text, <<"P", "r", "o", "v", "i", "d", "e", "d", " ", "M", "a", "t", "e", "r", "i", "a", "l", "s", ":", " ", "s", "t", "a", "r", "t", "e", "r">>)

\* C18 witness: the triples and the narrative chunk of the Sourdough Basics
\* course have both been built
C18_Witness ==
    \E p \in Callers : \E q \in Callers :
        /\ Built(p, "build_kg_triples") /\ arg[p].module = "graph_builders"
        /\ arg[p].courses = <<SourdoughRow>>
        /\ Len(ret[p].triples) >= 5
        /\ ChunksBuilt(q, "narrative")
        /\ arg[q].courses = <<ChunkInput(AllCourses[SourdoughRow])>>
        /\ Len(ret[q].chunks) = 1

----------------------------------------------------------------------------
(* Term clustering called on its own, and the graph store factory.         *)

TermPool == {<<"A", "n", "i", "m", "a", "l", " ", "C", "a", "r", "e">>, <<"F", "i", "b", "e", "r", " ", "A", "r", "t", "s">>, <<"k", "n", "e", "a", "d", " ", "s", "t", "a", "r", "t", "e", "r">>}

\* Lists of up to MaxTerms distinct candidate terms
TermLists ==
    {terms \in UNION {[1..n -> TermPool] : n \in 0..MaxTerms} :
        \A i \in DOMAIN terms : \A j \in DOMAIN terms : terms[i] = terms[j] => i = j}

\* CourseTextAnalytics._cluster_terms(terms) of graph_builders
ClusterTermsCall(p, terms) ==
    /\ MayStart(p)
    /\ op' = [op EXCEPT ![p] = "_cluster_terms"]
    /\ arg' = [arg EXCEPT ![p] = [terms |-> terms]]
    /\ Returned(p, [kind |-> "value", term_clusters |-> ClusterTerms(terms, have_sklearn)])

\* C19: with fewer than 2 terms, or without sklearn, _cluster_terms returns
\* the empty mapping and does not raise; build_kg_triples without sklearn
\* returns normally with no per-term triple and with every titled course's
\* provides_material and belongs_to_theme triples.
C19_NoClusteringIsEmptyMapping ==
    \A p \in Callers :
        /\ op[p] = "_cluster_terms" /\ pc[p] \in {"done", "raised"}
                                    /\ (Len(arg[p].terms) < 2 \/ ~have_sklearn)
              => pc[p] = "done" /\ ret[p].term_clusters = <<>>
        /\ op[p] = "build_kg_triples" /\ pc[p] \in {"done", "raised"}
                                      /\ arg[p].module = "graph_builders" /\ ~have_sklearn
              => /\ pc[p] = "done"
                 /\ \A i \in DOMAIN ret[p].triples : ret[p].triples[i].metadata.term = <<>>
                 /\ \A i \in DOMAIN arg[p].courses :
                       LET course == AllCourses[arg[p].courses[i]]
                       IN  course.title # <<>> =>
                             /\ HasTriple(ret[p].triples, course.title, BELONGS_TO_THEME,
                                          CourseTypeTheme(course.course_type))
                             /\ \A m \in DOMAIN course.provided_materials :
                                   course.provided_materials[m] # <<>> =>
                                       HasTriple(ret[p].triples, course.title, PROVIDES_MATERIAL,
                                                 course.provided_materials[m])

\* C19 witness: without sklearn two terms were clustered and a titled
\* course's triples were built
C19_Witness ==
    \E p \in Callers : \E q \in Callers :
        /\ ~have_sklearn
        /\ op[p] = "_cluster_terms" /\ pc[p] = "done" /\ Len(arg[p].terms) >= 2
        /\ Built(q, "build_kg_triples") /\ arg[q].module = "graph_builders"
        /\ ret[q].triples # <<>>

\* With sklearn a single term was handed to _cluster_terms
SingleTermClustered ==
    \E p \in Callers :
        have_sklearn /\ op[p] = "_cluster_terms" /\ pc[p] = "done" /\ Len(arg[p].terms) = 1

GraphBackends == {"neo4j", "dummy_graph_backend", "memgraph"}

\* Factories a caller registers; each returns a store of its own
CustomFactories == {"dummy_a", "dummy_b"}

\* What create_graph_store finds: the neo4j driver importable or not,
\* GRAPH_RAG_USE_NEO4J set to true or not, and the password keyword
GraphEnvironments ==
    [have_neo4j : BOOLEAN, use_neo4j : BOOLEAN, password : {<<>>, <<"p", "w">>}]

\* register_graph_backend keeping the factory a name already has
RegisteredFirstWins(registry, name, factory) ==
    [n \in DOMAIN registry \cup {name} |->
        IF n \in DOMAIN registry THEN registry[n] ELSE factory]

\* _GRAPH_BACKENDS[name] = factory
Registered(registry, name, factory) ==
    [n \in DOMAIN registry \cup {name} |-> IF n = name THEN factory ELSE registry[n]]

\* _ensure_default_backends
EnsureDefaultBackends(registry) ==
    IF "neo4j" \in DOMAIN registry THEN registry
    ELSE Registered(registry, "neo4j", "_neo4j_factory")

\* _ensure_default_backends._neo4j_factory
Neo4jFactory(env) ==
    IF ~env.have_neo4j THEN [kind |-> "value", store |-> "None"]
    ELSE IF env.password = <<>> THEN [kind |-> "value", store |-> "None"]
    ELSE [kind |-> "value", store |-> "Neo4jGraphStore"]

\* factory(**kwargs)
FactoryResult(factory, env) ==
    IF factory = "_neo4j_factory" THEN Neo4jFactory(env)
    ELSE [kind |-> "value", store |-> factory]

\* graph_store.create_graph_store(backend, password=...) over the registry
\* _ensure_default_backends left
create_graph_store(backend, env, registry) ==
    IF backend \in DOMAIN registry THEN FactoryResult(registry[backend], env)
    ELSE [kind |-> "value", store |-> "None"]

\* register_graph_backend(name, factory)
RegisterGraphBackend(name, factory) ==
    /\ Len(registrations) < MaxRegistrations
    /\ graph_backends' = Registered(graph_backends, name, factory)
    /\ registrations' = Append(registrations, <<name, factory>>)
    /\ UnchangedStores
    /\ UNCHANGED <<have_sklearn, batch_size_arg, batch_size, serialized, collation,
                   pc, op, arg, ret>>

CreateGraphStore(p, backend, env) ==
    /\ MayStart(p)
    /\ op' = [op EXCEPT ![p] = "create_graph_store"]
    /\ arg' = [arg EXCEPT ![p] = [backend |-> backend, env |-> env,
                                  registered |-> DOMAIN graph_backends,
                                  at |-> Len(registrations)]]
    /\ graph_backends' = EnsureDefaultBackends(graph_backends)
    /\ ret' = [ret EXCEPT ![p] = create_graph_store(backend, env, graph_backends')]
    /\ pc' = [pc EXCEPT ![p] = IF ret'[p].kind = "error" THEN "raised" ELSE "done"]
    /\ UnchangedStores
    /\ UNCHANGED <<have_sklearn, batch_size_arg, batch_size, serialized, collation,
                   registrations>>

StoreCreated(p) == op[p] = "create_graph_store" /\ pc[p] \in {"done", "raised"}

\* The factory most recently registered under name by the first n
\* register_graph_backend calls, "" when there was none
RECURSIVE MostRecent(_, _)
MostRecent(name, n) ==
    IF n = 0 THEN ""
    ELSE IF registrations[n][1] = name THEN registrations[n][2]
    ELSE MostRecent(name, n - 1)

\* The backend's configuration is incomplete: the default neo4j factory
\* lacks the driver or the password, or the name has no factory
ConfigurationMissing(p) ==
    \/ /\ arg[p].backend = "neo4j" /\ MostRecent("neo4j", arg[p].at) = ""
       /\ (~arg[p].env.have_neo4j \/ arg[p].env.password = <<>>)
    \/ arg[p].backend # "neo4j" /\ arg[p].backend \notin arg[p].registered

\* C20: create_graph_store with the backend's configuration missing and the
\* graph feature not explicitly enabled returns None without raising; with
\* the feature explicitly enabled and the credentials missing it raises a
\* configuration error and never returns None.
C20_MissingConfigurationNoneOrError ==
    \A p \in Callers :
        StoreCreated(p) =>
            /\ ConfigurationMissing(p) /\ ~arg[p].env.use_neo4j
                  => pc[p] = "done" /\ ret[p].store = "None"
            /\ /\ arg[p].backend = "neo4j" /\ MostRecent("neo4j", arg[p].at) = ""
               /\ arg[p].env.use_neo4j /\ arg[p].env.password = <<>>
                  => pc[p] = "raised"

\* The first half alone
MissingConfigurationGivesNone ==
    \A p \in Callers :
        StoreCreated(p) /\ ConfigurationMissing(p) => pc[p] = "done" /\ ret[p].store = "None"

\* C21: create_graph_store(backend=name) returns what the factory most
\* recently registered under name returns; registrations under other names
\* leave the default neo4j factory in place, and a name never registered
\* gives None.
C21_MostRecentFactoryWins ==
    \A p \in Callers :
        StoreCreated(p) =>
            LET factory == MostRecent(arg[p].backend, arg[p].at)
            IN  /\ pc[p] = "done"
                /\ factory # "" => ret[p].store = factory
                /\ factory = "" /\ arg[p].backend = "neo4j" => ret[p] = Neo4jFactory(arg[p].env)
                /\ factory = "" /\ arg[p].backend # "neo4j" => ret[p].store = "None"

\* C21 witness: a name was registered twice with different factories before
\* a store was created under it, and another name was registered before a
\* neo4j store was created
C21_Witness ==
    \E p \in Callers : \E q \in Callers :
        /\ StoreCreated(p) /\ arg[p].backend = "dummy_graph_backend"
        /\ \E i \in 1..arg[p].at : \E j \in 1..arg[p].at :
              /\ i < j
              /\ registrations[i][1] = "dummy_graph_backend"
              /\ registrations[j][1] = "dummy_graph_backend"
              /\ registrations[i][2] # registrations[j][2]
        /\ StoreCreated(q) /\ arg[q].backend = "neo4j" /\ arg[q].at > 0
        /\ MostRecent("neo4j", arg[q].at) = ""
        /\ ret[q].store = "Neo4jGraphStore"
----------------------------------------------------------------------------
(* graph_builders.CourseTextAnalytics on its own: records, token           *)
(* statistics, top tokens, the lemmatizer and the candidate phrases.       *)

TOKEN_FREQ_THRESHOLD == 40

TOKEN_COVERAGE_THRESHOLD == 20

\* graph_rag_service.CourseTextAnalytics._lemmatize
graph_rag_service_lemmatize(token) ==
    IF EndsWith(token, <<"i", "e", "s">>) /\ Len(token) > 3
    THEN SubSeq(token, 1, Len(token) - 3) \o <<"y">>
    ELSE IF EndsWith(token, <<"i", "n", "g">>) /\ Len(token) > 4 THEN SubSeq(token, 1, Len(token) - 3)
    ELSE IF EndsWith(token, <<"e", "d">>) /\ Len(token) > 3 THEN SubSeq(token, 1, Len(token) - 2)
    ELSE IF EndsWith(token, <<"s">>) /\ Len(token) > 3 THEN SubSeq(token, 1, Len(token) - 1)
    ELSE token

\* graph_builders.CourseTextAnalytics._tokenize
Tokenize(text) ==
    LET RECURSIVE Lemmas(_)
        Lemmas(tokens) ==
            IF tokens = <<>> THEN <<>>
            ELSE (IF ToLower(Head(tokens)) \in ENGLISH_STOP_WORDS \cup NOISE_TOKENS THEN <<>>
                  ELSE <<Lemmatize(ToLower(Head(tokens)))>>)
                 \o Lemmas(Tail(tokens))
    IN  Lemmas(FindTokens(text, 1))

\* course.get("id") or course.get("class_id"): an int, a str or None, told
\* apart by the first element
CourseId(course) ==
    IF course.id # 0 THEN <<"int">> \o IntToStr(course.id)
    ELSE IF course.class_id # <<>> THEN <<"str">> \o course.class_id
    ELSE <<"None">>

\* graph_builders.CourseTextAnalytics._build_records
BuildRecords(courses) ==
    LET RECURSIVE Records(_)
        Records(rest) ==
            IF rest = <<>> THEN <<>>
            ELSE (IF Head(rest).title = <<>> THEN <<>>
                  ELSE <<[course_id |-> CourseId(Head(rest)),
                          title |-> Head(rest).title,
                          tokens |-> Tokenize(CombineCourseText(Head(rest)))]>>)
                 \o Records(Tail(rest))
    IN  Records(courses)

\* tokens.count(token)
Occurrences(tokens, token) == Cardinality({k \in DOMAIN tokens : tokens[k] = token})

\* sum(xs)
RECURSIVE Sum(_)
Sum(xs) == IF xs = <<>> THEN 0 ELSE Head(xs) + Sum(Tail(xs))

\* graph_builders.CourseTextAnalytics._token_statistics
TokenStatistics(records) ==
    [token \in UNION {Range(records[i].tokens) : i \in DOMAIN records} |->
        [frequency |-> Sum([i \in DOMAIN records |-> Occurrences(records[i].tokens, token)]),
         course_count |->
            Cardinality({records[i].course_id :
                            i \in {j \in DOMAIN records : token \in Range(records[j].tokens)}})]]

\* graph_builders.CourseTextAnalytics._select_top_tokens
SelectTopTokens(stats) ==
    SortedStrs({token \in DOMAIN stats :
                   /\ stats[token].frequency >= TOKEN_FREQ_THRESHOLD
                   /\ stats[token].course_count >= TOKEN_COVERAGE_THRESHOLD})

\* graph_builders.CourseTextAnalytics.build: top_tokens
TopTokens(courses, sklearn_present) ==
    IF ~sklearn_present THEN <<>>
    ELSE SelectTopTokens(TokenStatistics(BuildRecords(courses)))

\* Corpora around the two thresholds: n offerings of one course, each
\* with the same materials, carrying ids 1..n or no identifier at all
Corpus(n, materials, identified) ==
    [i \in 1..n |-> Course(IF identified THEN i ELSE 0, <<>>, <<"L", "o", "o", "m", " ", "W", "e", "a", "v", "i", "n", "g">>,
                           <<>>, <<>>, <<>>, materials)]

MaxCorpus == 20

Corpora ==
    {Corpus(n, materials, identified) :
        n \in {MaxCorpus - 1, MaxCorpus},
        materials \in {<<<<"l", "o", "o", "m">>>>, <<<<"l", "o", "o", "m">>, <<"l", "o", "o", "m">>>>, <<<<"l", "o", "o", "m">>, <<"l", "o", "o", "m">>, <<"l", "o", "o", "m">>>>,
                       <<<<"l", "o", "o", "m", " ", "d", "y", "e">>, <<"d", "y", "e", " ", "l", "o", "o", "m">>>>},
        identified \in BOOLEAN}

\* CourseTextAnalytics(courses).build()["top_tokens"] of graph_builders
BuildTopTokens(p, courses) ==
    /\ MayStart(p)
    /\ op' = [op EXCEPT ![p] = "top_tokens"]
    /\ arg' = [arg EXCEPT ![p] = [courses |-> courses]]
    /\ Returned(p, [kind |-> "value", top_tokens |-> TopTokens(courses, have_sklearn)])

\* The tokens whose total count over the titled courses reaches the
\* frequency threshold and that occur in enough of the titled courses,
\* every titled course counted once
CountedTopTokens(courses) ==
    LET titled == {i \in DOMAIN courses : courses[i].title # <<>>}
        tokens == [i \in DOMAIN courses |-> Tokenize(CombineCourseText(courses[i]))]
        total(token) == Sum([i \in DOMAIN courses |->
                                IF i \in titled THEN Occurrences(tokens[i], token) ELSE 0])
    IN  {token \in UNION {Range(tokens[i]) : i \in titled} :
            /\ total(token) >= TOKEN_FREQ_THRESHOLD
            /\ Cardinality({i \in titled : token \in Range(tokens[i])})
                  >= TOKEN_COVERAGE_THRESHOLD}

\* ascending, without duplicates
Ascending(strs) == \A i \in DOMAIN strs : \A j \in DOMAIN strs : i < j => StrLess(strs[i], strs[j])

\* C22: top_tokens is exactly the set of tokens whose total count over all
\* titled courses is at least 40 and that occur in at least 20 courses,
\* every titled course record counted as one course, in ascending order
\* without duplicates.
C22_TopTokensByThresholds ==
    \A p \in Callers :
        Built(p, "top_tokens") /\ have_sklearn =>
            /\ Range(ret[p].top_tokens) = CountedTopTokens(arg[p].courses)
            /\ Ascending(ret[p].top_tokens)

\* The same for courses that carry pairwise distinct ids
TopTokensOfIdentifiedCourses ==
    \A p \in Callers :
        /\ Built(p, "top_tokens") /\ have_sklearn
        /\ \A i \in DOMAIN arg[p].courses : \A j \in DOMAIN arg[p].courses :
              i # j => /\ arg[p].courses[i].id # 0
                       /\ arg[p].courses[i].id # arg[p].courses[j].id
        => /\ Range(ret[p].top_tokens) = CountedTopTokens(arg[p].courses)
           /\ Ascending(ret[p].top_tokens)

\* Two top tokens were returned
TwoTopTokens == \E p \in Callers : Built(p, "top_tokens") /\ Len(ret[p].top_tokens) = 2

\* Free texts of a course: with noise words, with words whose lemma is a
\* noise word, with stop words and with words ending in ss
AnalyticsTexts ==
    {<<"k", "n", "i", "f", "e", " ", "s", "k", "i", "l", "l", "s", " ", "a", "n", "d", " ", "b", "r", "e", "a", "d", " ", "s", "h", "a", "p", "i", "n", "g">>, <<"S", "k", "i", "l", "l", "e", "d", " ", "b", "a", "k", "e", "r", "s">>, <<"g", "l", "a", "s", "s", " ", "c", "u", "t", "t", "i", "n", "g">>,
     <<"t", "h", "e", " ", "s", "k", "i", "l", "l", " ", "o", "f", " ", "s", "k", "i", "l", "l", "i", "n", "g">>, <<"d", "r", "e", "s", "s", " ", "m", "a", "k", "i", "n", "g">>, <<"l", "o", "o", "m">>, <<"b", "e", "r", "r", "i", "e", "s">>, <<>>}

\* One titled course with the text as its description
TextCourse(text) ==
    <<[Course(1, <<>>, <<"O", "p", "e", "n", " ", "S", "t", "u", "d", "i", "o">>, <<>>, <<>>, <<>>, <<>>) EXCEPT !.description = text]>>

\* CourseTextAnalytics(courses).build()["candidate_phrases"] of graph_builders
BuildCandidatePhrases(p, courses) ==
    /\ MayStart(p)
    /\ op' = [op EXCEPT ![p] = "candidate_phrases"]
    /\ arg' = [arg EXCEPT ![p] = [courses |-> courses]]
    /\ Returned(p, [kind |-> "value",
                    candidate_phrases |->
                        IF have_sklearn THEN graph_builders_CandidatePhrases(courses)
                        ELSE <<>>])

\* The phrase has a word that is a noise token
HasNoiseToken(phrase) ==
    \E token \in Range(FindTokens(phrase, 1)) : ToLower(token) \in NOISE_TOKENS

\* C23: no phrase in candidate_phrases contains a noise token (skill or
\* skills), be it mined from the corpus or one of the curated phrases.
C23_NoNoiseTokenInCandidatePhrases ==
    \A p \in Callers :
        Built(p, "candidate_phrases") =>
            \A phrase \in Range(ret[p].candidate_phrases) : ~HasNoiseToken(phrase)

\* The same for the mined phrases alone
NoNoiseTokenInMinedPhrases ==
    \A p \in Callers :
        Built(p, "candidate_phrases") =>
            \A phrase \in Range(ret[p].candidate_phrases) \ Range(SortedDefaultCandidatePhrases) :
                ~HasNoiseToken(phrase)

\* Phrases were mined from a text that has a noise word
PhrasesMinedNextToNoise ==
    \E p \in Callers :
        /\ Built(p, "candidate_phrases")
        /\ HasNoiseToken(arg[p].courses[1].description)
        /\ Range(ret[p].candidate_phrases) \ Range(SortedDefaultCandidatePhrases) # {}

\* CourseTextAnalytics._tokenize(text) of graph_builders
TokenizeCall(p, text) ==
    /\ MayStart(p)
    /\ op' = [op EXCEPT ![p] = "_tokenize"]
    /\ arg' = [arg EXCEPT ![p] = [text |-> text]]
    /\ Returned(p, [kind |-> "value", tokens |-> Tokenize(text)])

\* C24: every token of a course text is lowercase and is neither a stop
\* word nor a noise token such as skill.
C24_TokensAreNeverStopOrNoise ==
    \A p \in Callers :
        Built(p, "_tokenize") =>
            \A token \in Range(ret[p].tokens) :
                /\ token = ToLower(token)
                /\ token \notin ENGLISH_STOP_WORDS \cup NOISE_TOKENS

\* What does hold: the tokens are lowercase, and a word of the text that is
\* itself a stop word or a noise token gives no token
TokensOfKeptWordsOnly ==
    \A p \in Callers :
        Built(p, "_tokenize") =>
            /\ \A token \in Range(ret[p].tokens) : token = ToLower(token)
            /\ Len(ret[p].tokens)
                  = Cardinality({k \in DOMAIN FindTokens(arg[p].text, 1) :
                                    ToLower(FindTokens(arg[p].text, 1)[k])
                                        \notin ENGLISH_STOP_WORDS \cup NOISE_TOKENS})

\* Lowercase tokens for the lemmatizer, one or more for each of its rules
LemmaTokens ==
    {<<"b", "e", "r", "r", "i", "e", "s">>, <<"t", "i", "e", "s">>, <<"i", "e", "s">>, <<"m", "a", "k", "i", "n", "g">>, <<"s", "i", "n", "g">>, <<"b", "a", "k", "e", "d">>, <<"r", "e", "d">>, <<"l", "o", "o", "m", "s">>,
     <<"b", "u", "s">>, <<"g", "l", "a", "s", "s">>, <<"d", "r", "e", "s", "s">>, <<"m", "o", "s", "s">>, <<"l", "o", "o", "m">>, <<"k", "n", "e", "a", "d", "i", "n", "g">>, <<"s", "k", "i", "l", "l", "e", "d">>}

\* CourseTextAnalytics._lemmatize(token) of either module
LemmatizeCall(p, token, module) ==
    /\ MayStart(p)
    /\ op' = [op EXCEPT ![p] = "_lemmatize"]
    /\ arg' = [arg EXCEPT ![p] = [token |-> token, module |-> module]]
    /\ Returned(p, [kind |-> "value",
                    lemma |-> IF module = "graph_builders" THEN Lemmatize(token)
                              ELSE graph_rag_service_lemmatize(token)])

\* The first matching rule of: -ies becomes -y, strip -ing, strip -ed,
\* strip a trailing -s unless the token ends in -ss, else unchanged
FirstMatchingRule(token) ==
    IF EndsWith(token, <<"i", "e", "s">>) THEN SubSeq(token, 1, Len(token) - 3) \o <<"y">>
    ELSE IF EndsWith(token, <<"i", "n", "g">>) THEN SubSeq(token, 1, Len(token) - 3)
    ELSE IF EndsWith(token, <<"e", "d">>) THEN SubSeq(token, 1, Len(token) - 2)
    ELSE IF EndsWith(token, <<"s">>) /\ ~EndsWith(token, <<"s", "s">>)
         THEN SubSeq(token, 1, Len(token) - 1)
    ELSE token

\* C25: the lemmatizer applies the first matching rule of -ies to -y, strip
\* -ing, strip -ed, strip a trailing -s unless the token ends in -ss, else
\* unchanged; no token ending in ss loses its final s, and the copies in
\* graph_builders and graph_rag_service give every token the same lemma.
C25_OneLemmatizerHeuristic ==
    \A p \in Callers :
        Built(p, "_lemmatize") =>
            /\ ret[p].lemma = FirstMatchingRule(arg[p].token)
            /\ EndsWith(arg[p].token, <<"s", "s">>) => EndsWith(ret[p].lemma, <<"s", "s">>)
            /\ \A q \in Callers :
                  Built(q, "_lemmatize") /\ arg[q].token = arg[p].token
                      => ret[q].lemma = ret[p].lemma

\* What holds of the graph_builders copy: the rules, for tokens of more
\* than four characters
GraphBuildersLemmatizeByRules ==
    \A p \in Callers :
        /\ Built(p, "_lemmatize") /\ arg[p].module = "graph_builders"
        /\ Len(arg[p].token) > 4
        => ret[p].lemma = FirstMatchingRule(arg[p].token)

\* What holds of both copies: they agree on tokens that do not end in ss
CopiesAgreeOffDoubleS ==
    \A p \in Callers : \A q \in Callers :
        /\ Built(p, "_lemmatize") /\ Built(q, "_lemmatize")
        /\ arg[q].token = arg[p].token /\ ~EndsWith(arg[p].token, <<"s", "s">>)
        => ret[q].lemma = ret[p].lemma

----------------------------------------------------------------------------
(* Properties of the lowering of triples to graph relationships.           *)

\* The relationship that attaches a base field's value to the subject
\* node of the course: uid = title slug suffixed with the course's id
AttachedToOwnSubject(relationships, course, predicate, value) ==
    \E i \in DOMAIN relationships :
        /\ relationships[i].subject_id = NodeUid(course.title, IntToStr(course.id))
        /\ relationships[i].rel_props.predicate = PyStr(predicate)
        /\ relationships[i].object_props.name = value

\* Two titled courses of the list with the same title and different ids
SameTitleOtherId(courses, i, j) ==
    /\ i # j
    /\ courses[i].title # <<>> /\ courses[i].title = courses[j].title
    /\ courses[i].id # 0 /\ courses[j].id # 0 /\ courses[i].id # courses[j].id

\* C26: of two titled courses with the same title and different ids each
\* is lowered to its own subject node, and each course's non-empty
\* instructor, course_type and location are relationships of its own
\* subject node, also when both courses have the same field values.
C26_SameTitleOwnSubjectNodes ==
    \A p \in Callers :
        Built(p, "build_graph_relationships") =>
            LET courses == Courses(arg[p].courses)
            IN  \A i \in DOMAIN courses : \A j \in DOMAIN courses :
                    SameTitleOtherId(courses, i, j) =>
                        \A k \in DOMAIN BasePredicateValues(courses[i]) :
                            LET field == BasePredicateValues(courses[i])[k]
                            IN  field[2] # <<>> =>
                                    AttachedToOwnSubject(ret[p].relationships, courses[i],
                                                         field[1], field[2])

\* The same for the field values the two courses do not share
OwnSubjectForUnsharedFields ==
    \A p \in Callers :
        Built(p, "build_graph_relationships") =>
            LET courses == Courses(arg[p].courses)
            IN  \A i \in DOMAIN courses : \A j \in DOMAIN courses :
                    SameTitleOtherId(courses, i, j) =>
                        \A k \in DOMAIN BasePredicateValues(courses[i]) :
                            LET field == BasePredicateValues(courses[i])[k]
                            IN  field[2] # <<>> /\ field[2] # BasePredicateValues(courses[j])[k][2]
                                    => AttachedToOwnSubject(ret[p].relationships, courses[i],
                                                            field[1], field[2])

\* C27: object uids come from the object's name and its semantic type, so
\* two objects with the same name and different predicate-derived types
\* have distinct uids, and after replace_graph each of the two nodes still
\* has its own entity_type.
C27_ObjectUidsByNameAndType ==
    \A p \in Callers :
        (serialized /\ ReplaceDone(p)) =>
            LET relationships == RelationshipsArg(p)
                nodes == snap[p].graph.nodes
            IN  \A i \in DOMAIN relationships : \A j \in DOMAIN relationships :
                    /\ relationships[i].object_props.name = relationships[j].object_props.name
                    /\ relationships[i].object_props.entity_type
                          # relationships[j].object_props.entity_type
                    => /\ relationships[i].object_id # relationships[j].object_id
                       /\ relationships[i].object_id \in DOMAIN nodes
                       /\ nodes[relationships[i].object_id].entity_type
                             = relationships[i].object_props.entity_type

\* What holds: two relationships whose objects have the same name and the
\* same type share the object node
SameNameSameTypeOneNode ==
    \A p \in Callers :
        (serialized /\ ReplaceDone(p)) =>
            LET relationships == RelationshipsArg(p)
            IN  \A i \in DOMAIN relationships : \A j \in DOMAIN relationships :
                    /\ relationships[i].object_props.name = relationships[j].object_props.name
                    /\ relationships[i].object_props.entity_type
                          = relationships[j].object_props.entity_type
                    /\ relationships[i].object_props.term = relationships[j].object_props.term
                    => relationships[i].object_id = relationships[j].object_id

----------------------------------------------------------------------------
(* neighbors while replace_graph runs.                                     *)

\* The graphs that can be in the database while the neighbors call of p
\* runs next to one other caller: the graph its get_entity read, and, if
\* the other caller replaces the graph, the empty graph and what the
\* relationships written so far build from it
GraphVersions(p) ==
    {snap[p].graph}
        \cup UNION {{WriteBatchTx(EmptyGraph, SubSeq(loc[q].relationships, 1, k)) :
                        k \in 0..Len(loc[q].relationships)} :
                    q \in {r \in Callers \ {p} : op[r] = "replace_graph"}}

\* The result of p is the entity with the neighbour lists it has in g
NeighborsAsIn(p, g) ==
    /\ ret[p].uid \in DOMAIN g.nodes
    /\ \E outgoing \in FetchNeighbors(g, ret[p].uid, "out", arg[p].limit) :
          \E incoming \in FetchNeighbors(g, ret[p].uid, "in", arg[p].limit) :
              ret[p].neighbors = outgoing \o incoming

\* C28: a neighbors call that overlaps a replace_graph run and reports
\* found = true returns the outgoing and incoming lists the resolved entity
\* has in one single version of the graph.
C28_NeighborsFromOneGraphVersion ==
    \A p \in Callers :
        NeighborsFound(p) => \E g \in GraphVersions(p) : NeighborsAsIn(p, g)

\* A call that no run overlaps returns the lists of the graph it resolved
\* the entity in
QuietNeighborsFromOneGraphVersion ==
    \A p \in Callers :
        NeighborsFound(p) /\ ReadQuietly(p) => NeighborsAsIn(p, snap[p].graph)

----------------------------------------------------------------------------
(* Properties of the chunk ids of one build.                               *)

\* The courses of the list differ pairwise in id, class_id or title
DistinctRecords(courses) ==
    \A i \in DOMAIN courses : \A j \in DOMAIN courses :
        i # j => <<courses[i].id, courses[i].class_id, courses[i].title>>
                    # <<courses[j].id, courses[j].class_id, courses[j].title>>

DistinctChunkIds(chunks) ==
    \A i \in DOMAIN chunks : \A j \in DOMAIN chunks : i # j => chunks[i].id # chunks[j].id

\* C29: the chunk ids of one CourseChunkBuilder.build(courses) are pairwise
\* distinct for every list of courses that differ pairwise in id, class_id
\* or title, with or without an id.
C29_ChunkIdsPairwiseDistinct ==
    \A p \in Callers :
        /\ op[p] = "build_chunks" /\ pc[p] = "done"
        /\ DistinctRecords(arg[p].courses)
        => DistinctChunkIds(ret[p].chunks)

\* The same for courses with pairwise distinct identifiers
ChunkIdsDistinctByIdentifier ==
    \A p \in Callers :
        /\ op[p] = "build_chunks" /\ pc[p] = "done"
        /\ \A i \in DOMAIN arg[p].courses : \A j \in DOMAIN arg[p].courses :
              i # j => chunk_builder_course_identifier(arg[p].courses[i])
                          # chunk_builder_course_identifier(arg[p].courses[j])
        => DistinctChunkIds(ret[p].chunks)

\* Two courses with distinct identifiers gave several chunks each
TwoCoursesChunked ==
    \E p \in Callers :
        /\ op[p] = "build_chunks" /\ pc[p] = "done" /\ Len(arg[p].courses) = 2
        /\ chunk_builder_course_identifier(arg[p].courses[1])
              # chunk_builder_course_identifier(arg[p].courses[2])
        /\ Len(ret[p].chunks) > 4

----------------------------------------------------------------------------
(* OpenRouterEmbedder.__call__: batches, each posted and bisected on        *)
(* failure.  One step per _post request.                                   *)

\* Most texts in one call, and the largest batch_size of an embedder
MaxTexts == 4

MaxEmbedBatch == 3

\* OpenRouterEmbedder._sanitize; None is PyNone, max_chars = 0 stands for None
Sanitize(value, max_chars) ==
    IF value = PyNone THEN <<>>
    ELSE IF max_chars # 0 /\ Len(value.text) > max_chars THEN SubSeq(value.text, 1, max_chars)
    ELSE value.text

\* The embedding the service returns for one text
EmbeddingOf(doc) == [embedding |-> PyStr(doc)]

\* The lists of texts handed to the embedder: pairwise different texts,
\* the third of them None
EmbedInputs ==
    LET texts == [i \in 1..MaxTexts |->
                    IF i = 3 THEN PyNone ELSE PyAtom("str", <<"t", "e", "x", "t", " ">> \o IntToStr(i))]
    IN  {SubSeq(texts, 1, n) : n \in 0..MaxTexts}

\* A call of _embed_with_bisect that is still to run
Frame(batch, start_index) == [batch |-> batch, start_index |-> start_index]

\* The two recursive calls of a failed batch, both given the batch's own
\* start_index
BisectSameIndex(frame) ==
    LET midpoint == Len(frame.batch) \div 2
    IN  << Frame(SubSeq(frame.batch, 1, midpoint), frame.start_index),
           Frame(SubSeq(frame.batch, midpoint + 1, Len(frame.batch)), frame.start_index) >>

\* _embed_with_bisect: the two recursive calls of a failed batch
Bisect(frame) ==
    LET midpoint == Len(frame.batch) \div 2
    IN  << Frame(SubSeq(frame.batch, 1, midpoint), frame.start_index),
           Frame(SubSeq(frame.batch, midpoint + 1, Len(frame.batch)),
                 frame.start_index + midpoint) >>

\* OpenRouterEmbedder(batch_size=...)(input_texts) up to its first request
StartEmbed(p, input_texts, embed_batch) ==
    /\ MayStart(p)
    /\ op' = [op EXCEPT ![p] = "embed"]
    /\ arg' = [arg EXCEPT ![p] = [input_texts |-> input_texts, batch_size |-> embed_batch]]
    /\ loc' = [loc EXCEPT ![p] = [docs |-> [i \in DOMAIN input_texts |->
                                               Sanitize(input_texts[i], 0)],
                                  output |-> <<>>, idx |-> 0, stack |-> <<>>]]
    /\ IF input_texts = <<>>
       THEN /\ pc' = [pc EXCEPT ![p] = "done"]
            /\ ret' = [ret EXCEPT ![p] = [kind |-> "value", embeddings |-> <<>>]]
       ELSE /\ pc' = [pc EXCEPT ![p] = "post"]
            /\ UNCHANGED ret
    /\ UNCHANGED <<kg_store, chunk_store, graph, calls, snap, last_index, last_replace>>
    /\ UnchangedConfig

\* One self._post(batch): of the innermost pending _embed_with_bisect, or
\* of the while loop's next batch
Post(p, ok) ==
    /\ pc[p] = "post"
    /\ LET docs == loc[p].docs
           fresh == loc[p].stack = <<>>
           frame == IF fresh
                    THEN Frame(Slice(docs, loc[p].idx, loc[p].idx + arg[p].batch_size),
                               loc[p].idx)
                    ELSE Head(loc[p].stack)
           idx == IF fresh THEN loc[p].idx + arg[p].batch_size ELSE loc[p].idx
           pending == IF fresh THEN <<>> ELSE Tail(loc[p].stack)
           output == loc[p].output \o [i \in DOMAIN frame.batch |-> EmbeddingOf(frame.batch[i])]
       IN  /\ calls' = [calls EXCEPT ![p] =
                          Append(@, Call("embedder", "post", IF ok THEN "ok" ELSE "error",
                                         frame.batch))]
           /\ IF ok
              THEN /\ loc' = [loc EXCEPT ![p].output = output, ![p].idx = idx,
                                         ![p].stack = pending]
                   /\ IF pending = <<>> /\ idx >= Len(docs)
                      THEN /\ pc' = [pc EXCEPT ![p] = "done"]
                           /\ ret' = [ret EXCEPT ![p] = [kind |-> "value",
                                                         embeddings |-> output]]
                      ELSE UNCHANGED <<pc, ret>>
              ELSE IF Len(frame.batch) = 1
              THEN /\ pc' = [pc EXCEPT ![p] = "raised"]
                   /\ ret' = [ret EXCEPT ![p] = [kind |-> "error",
                                                 index |-> frame.start_index]]
                   /\ UNCHANGED loc
              ELSE /\ loc' = [loc EXCEPT ![p].idx = idx, ![p].stack = Bisect(frame) \o pending]
                   /\ UNCHANGED <<pc, ret>>
    /\ UNCHANGED <<kg_store, chunk_store, graph, op, arg, snap, last_index, last_replace>>
    /\ UnchangedConfig

\* The requests of p for one text that failed
FailedSingles(p) ==
    {k \in DOMAIN calls[p] : calls[p][k].outcome = "error" /\ Len(calls[p][k].batch) = 1}

\* What an embedder call has returned or raised
EmbedResultAsPromised(p) ==
    /\ pc[p] = "done" =>
          /\ FailedSingles(p) = {}
          /\ Len(ret[p].embeddings) = Len(arg[p].input_texts)
          /\ \A i \in DOMAIN arg[p].input_texts :
                ret[p].embeddings[i] = EmbeddingOf(Sanitize(arg[p].input_texts[i], 0))
    /\ pc[p] = "raised" =>
          /\ FailedSingles(p) = {Len(calls[p])}
          /\ ret[p].index \in 0..(Len(arg[p].input_texts) - 1)
          /\ Sanitize(arg[p].input_texts[ret[p].index + 1], 0)
                = calls[p][Len(calls[p])].batch[1]
          /\ DOMAIN ret[p] = {"kind", "index"}
    /\ pc[p] = "post" => FailedSingles(p) = {}

\* C30: if every request for a single text succeeds, the embedder call
\* terminates and returns one embedding per input text in input order,
\* whichever requests for several texts fail; if a request for a single
\* text fails, the call raises an error that names that text's index in
\* the original input and returns no partial result.
C30_BisectReturnsAllOrNamesIndex ==
    /\ [](\A p \in Callers : op[p] = "embed" => EmbedResultAsPromised(p))
    /\ \A p \in Callers : (pc[p] = "post") ~> (pc[p] \in {"done", "raised"})

\* C30 witness: a call has returned every embedding after a batch of
\* three or more texts and one of its halves failed, and another call
\* raised for a text that is not the first of its batch
C30_Witness ==
    \E p \in Callers : \E q \in Callers :
        /\ op[p] = "embed" /\ pc[p] = "done"
        /\ Cardinality({k \in DOMAIN calls[p] : calls[p][k].outcome = "error"}) >= 2
        /\ \E k \in DOMAIN calls[p] : calls[p][k].outcome = "error" /\ Len(calls[p][k].batch) >= 3
        /\ op[q] = "embed" /\ pc[q] = "raised"
        /\ ret[q].index > 0 /\ ret[q].index % arg[q].batch_size # 0

----------------------------------------------------------------------------
(* Specifications.                                                         *)

\* Neo4jGraphStore.__init__'s default batch_size
DefaultBatchSize == 500

Idle ==
    /\ collation = Collation
    /\ kg_store = EmptyBag
    /\ chunk_store = EmptyBag
    /\ graph = EmptyGraph
    /\ pc = [p \in Callers |-> "idle"]
    /\ op = [p \in Callers |-> "none"]
    /\ arg = [p \in Callers |-> NoArg]
    /\ loc = [p \in Callers |-> NoLoc]
    /\ ret = [p \in Callers |-> NoRet]
    /\ calls = [p \in Callers |-> <<>>]
    /\ snap = [p \in Callers |-> NoSnap]
    /\ last_index = 0
    /\ last_replace = 0
    /\ graph_backends = <<>>
    /\ registrations = <<>>

\* The callers of GraphRAGService.index_courses
Init ==
    /\ have_sklearn = TRUE
    /\ batch_size_arg = DefaultBatchSize
    /\ batch_size = InitBatchSize(batch_size_arg)
    /\ serialized \in BOOLEAN
    /\ Idle

Next ==
    \E p \in Callers :
        \/ \E courses \in CourseLists : StartIndexCourses(p, courses)
        \/ \E ok \in BOOLEAN : KgDelete(p, ok)
        \/ \E ok \in BOOLEAN : KgAdd(p, ok)
        \/ \E ok \in BOOLEAN : ChunkDelete(p, ok)
        \/ \E ok \in BOOLEAN : ChunkAdd(p, ok)

Spec == Init /\ [][Next]_vars

\* The callers of a Neo4jGraphStore.  Small batch sizes go with the short
\* relationship lists of a deployment without sklearn.
InitGraph ==
    /\ have_sklearn \in BOOLEAN
    /\ batch_size_arg \in (0..MaxBatch) \cup {DefaultBatchSize}
    /\ have_sklearn => batch_size_arg = DefaultBatchSize
    /\ batch_size = InitBatchSize(batch_size_arg)
    /\ serialized \in BOOLEAN
    /\ Idle

NextGraph ==
    \E p \in Callers :
        \/ \E rows \in GraphCourseLists : StartReplaceGraph(p, rows)
        \/ \E ok \in BOOLEAN : ClearGraph(p, ok)
        \/ \E ok \in BOOLEAN : WriteBatch(p, ok)
        \/ \E value \in QueryValues, module \in GraphStoreModules :
              GetEntity(p, PyStr(value), module)
        \/ \E value \in QueryValues, limit \in 1..MaxLimit, module \in GraphStoreModules :
              StartNeighbors(p, PyStr(value), limit, module)
        \/ NeighborsOut(p)
        \/ NeighborsIn(p)

SpecGraph == InitGraph /\ [][NextGraph]_vars

\* The callers of hybrid_search and of the two _shape_results
InitShape ==
    /\ have_sklearn = TRUE
    /\ batch_size_arg = DefaultBatchSize
    /\ batch_size = InitBatchSize(batch_size_arg)
    /\ serialized = FALSE
    /\ Idle

NextShape ==
    \E p \in Callers :
        \/ \E shaper \in Shapers, results \in ShapedResponses \cup ProviderResponses :
              ShapeResults(p, shaper, results)
        \/ \E kg_results \in ProviderResponses, chunk_results \in ProviderResponses :
              HybridSearch(p, kg_results, chunk_results)

SpecShape == InitShape /\ [][NextShape]_vars

\* The callers of the builders and of _cluster_terms
InitBuild ==
    /\ have_sklearn \in BOOLEAN
    /\ batch_size_arg = DefaultBatchSize
    /\ batch_size = InitBatchSize(batch_size_arg)
    /\ serialized = FALSE
    /\ Idle

NextBuild ==
    \E p \in Callers :
        \/ \E rows \in BuilderLists, module \in BuilderModules : BuildKgTriples(p, rows, module)
        \/ \E rows \in BuilderLists : BuildGraphRelationships(p, rows)
        \/ \E courses \in ChunkLists, mode \in ChunkModes : BuildChunks(p, courses, mode)
        \/ \E terms \in TermLists : ClusterTermsCall(p, terms)

SpecBuild == InitBuild /\ [][NextBuild]_vars

\* The callers of register_graph_backend and create_graph_store
NextRegistry ==
    \/ \E name \in GraphBackends \ {"memgraph"}, factory \in CustomFactories :
          RegisterGraphBackend(name, factory)
    \/ \E p \in Callers, backend \in GraphBackends, env \in GraphEnvironments :
          CreateGraphStore(p, backend, env)

SpecRegistry == InitShape /\ [][NextRegistry]_vars

\* The callers of CourseTextAnalytics
NextAnalytics ==
    \E p \in Callers :
        \/ \E courses \in Corpora : BuildTopTokens(p, courses)
        \/ \E text \in AnalyticsTexts : BuildCandidatePhrases(p, TextCourse(text))
        \/ \E text \in AnalyticsTexts : TokenizeCall(p, text)
        \/ \E token \in LemmaTokens, module \in BuilderModules :
              LemmatizeCall(p, token, module)

SpecAnalytics == InitBuild /\ [][NextAnalytics]_vars

\* The callers of a Neo4jGraphStore whose database already holds the graph
\* of an earlier replace_graph
InitOverlap ==
    /\ have_sklearn = FALSE
    /\ batch_size_arg \in 1..MaxBatch
    /\ batch_size = InitBatchSize(batch_size_arg)
    /\ serialized = FALSE
    /\ collation = Collation
    /\ kg_store = EmptyBag
    /\ chunk_store = EmptyBag
    /\ graph \in {WriteBatchTx(EmptyGraph, Relationships(rows, FALSE)) : rows \in {<<1>>, <<5>>}}
    /\ pc = [p \in Callers |-> "idle"]
    /\ op = [p \in Callers |-> "none"]
    /\ arg = [p \in Callers |-> NoArg]
    /\ loc = [p \in Callers |-> NoLoc]
    /\ ret = [p \in Callers |-> NoRet]
    /\ calls = [p \in Callers |-> <<>>]
    /\ snap = [p \in Callers |-> NoSnap]
    /\ last_index = 0
    /\ last_replace = 0
    /\ graph_backends = <<>>
    /\ registrations = <<>>

SpecOverlap == InitOverlap /\ [][NextGraph]_vars

\* The callers of an OpenRouterEmbedder.  Every request returns or raises
\* within its timeout, so a call that has a request to make makes it.
NextEmbed ==
    \E p \in Callers :
        \/ \E input_texts \in EmbedInputs, embed_batch \in 1..MaxEmbedBatch :
              StartEmbed(p, input_texts, embed_batch)
        \/ \E ok \in BOOLEAN : Post(p, ok)

SpecEmbed ==
    /\ InitShape
    /\ [][NextEmbed]_vars
    /\ \A p \in Callers : WF_vars(\E ok \in BOOLEAN : Post(p, ok))

====
